---- MODULE Spec2Model ----
(***************************************************************************)
(* The per-tenant execution manager of the wasm operator host:             *)
(* WasmRuntime (parent/src/runtime/mod.rs) with its operator map, the      *)
(* cold-start loop run_components, the watch supervisors                   *)
(* watch_and_reconcile / dispatch_reconcile, the idle reaper               *)
(* idle_check_loop / unload_component and the accessor with_operator.      *)
(*                                                                         *)
(* Every async function is cut at its .await points: one action per        *)
(* stretch of code that runs between two awaits.  The guest, the wasm      *)
(* engine, the file system and the watch stream are the environment:       *)
(* their results (Ok / Err, bytes, stream items) are chosen with \E.       *)
(***************************************************************************)
EXTENDS Integers, Sequences, FiniteSets, TLC

(***************************************************************************)
(* Bounds of the model.                                                    *)
(***************************************************************************)
\* Items the watch streams yield, all streams together, before they block
\* for good.
MaxEvents == 2
\* Clock ticks (of IDLE_THRESHOLD / 2 each) before the clock stops.
MaxTicks == 3
\* send_request calls the guests make, all operators together.
MaxRequests == 2
\* get calls a guest makes on one entry of its table.
MaxGets == 2
\* Ticks of the timer (of TimerStep milliseconds each) during the cold start.
MaxTimerTicks == 6

(***************************************************************************)
(* Program constants and the configuration the host is started with.       *)
(***************************************************************************)
\* const IDLE_THRESHOLD: Duration = Duration::from_secs(300)
IDLE_THRESHOLD == 300

\* tokio::time::sleep(IDLE_THRESHOLD / 2): the reaper's period, and the
\* granularity of the model's clock.
ReaperPeriod == IDLE_THRESHOLD \div 2

\* let stagger_delay = Duration::from_millis(125)
stagger_delay == 125

\* The milliseconds between two instants at which the timer wakes sleepers.
TimerStep == 50

\* components_metadata: Vec<WasmComponentMetadata>, by metadata.name.
components_metadata == <<"t1">>

\* type OperatorId = String: the ids an operator may have.  Those of
\* components_metadata are the operators of the host when it is started by
\* run_components.
OperatorIds == {"t1", "t2"}

\* The kinds a guest may name in the WatchRequests it returns.
WatchKinds == {"Ring", "TestResource"}

\* Byte strings a guest's serialize may return.
Blobs == {<<1, 2>>, <<3>>}

(***************************************************************************)
(* Tasks: the scheduler (run_components), the reaper (idle_check_loop) and *)
(* one watch_and_reconcile task per (operator, WatchRequest).              *)
(***************************************************************************)
SCHED == [id |-> "-", kind |-> "run_components"]
REAPER == [id |-> "-", kind |-> "idle_check_loop"]
Supervisors == [id : OperatorIds, kind : WatchKinds]
Callers == {SCHED} \cup Supervisors
Tasks == Callers \cup {REAPER}

VARIABLES
    operators,          \* WasmRuntime.operators: OperatorId -> OperatorState
    files,              \* the file system under /tmp/wasm-state
    now,                \* Instant::now(), in seconds
    next_inst,          \* identity of the next instance load() builds
    pc,                 \* where each task stands
    target,             \* the id argument of the task's with_operator / unload_component
    op_state,           \* the local op_state of with_operator / unload_component
    fresh,              \* (operator, store) built by load() during a reload
    data,               \* saved_state (reload) or memory_data (unload)
    sched_i,            \* run_components: index into components_metadata
    idle_ids,           \* idle_check_loop: ids still to unload in this sweep
    wake_at,            \* idle_check_loop: end of the current sleep
    consumed,           \* per supervisor: items taken from its watch stream
    reconcile_request,  \* per supervisor: the request of the dispatch in progress
    yielded,            \* history: non-ignored events each stream yielded
    delivered,          \* history: requests call_reconcile was invoked with
    blocker,            \* history: who held the slot when a task's remove(id) gave None
    snap,               \* history: bytes call_serialize returned for the last swap-out
    returned,           \* history: how each task's last with_operator call returned
    unload_result,      \* history: how the last unload_component(id) call ended
    channels,           \* the oneshot channels send_request made, and their spawned tasks
    rx,                 \* per task: the receiver the guest call it drives awaits in get
    ret,                \* history: what the last get or drop a guest called returned
    taken,              \* history: per supervisor, the items noted as it took them
    requested,          \* history: per operator, the kinds of the WatchRequests it returned
    components,         \* run_components: the components_metadata it was called with
    ms,                 \* the milliseconds of the clock, past the second of now
    stagger_until,      \* run_components: the deadline of its stagger sleep, in ms
    began               \* history: per operator, the ms at which its cold start began

vars == <<operators, files, now, next_inst, pc, target, op_state, fresh, data,
          sched_i, idle_ids, wake_at, consumed, reconcile_request, yielded,
          delivered, blocker, snap, returned, unload_result, channels, rx, ret, taken, requested, components, ms, stagger_until, began>>

(***************************************************************************)
(* OperatorState and the values around it.                                 *)
(***************************************************************************)
\* DashMap holds no entry for the id.
Absent == [kind |-> "Absent"]

\* OperatorState::Loaded { operator, store, last_active, metadata }
\* operator stands for the pair (operator, store): one instance.
Loaded(operator, last_active, metadata) ==
    [kind |-> "Loaded", operator |-> operator, last_active |-> last_active,
     metadata |-> metadata]

\* OperatorState::Unloaded { state_path, metadata }
Unloaded(state_path, metadata) ==
    [kind |-> "Unloaded", state_path |-> state_path, metadata |-> metadata]

\* PathBuf::from(format!("/tmp/wasm-state/{}.mem", id))
StatePath(id) == <<"/tmp/wasm-state/", id, ".mem">>

Paths == {StatePath(id) : id \in OperatorIds}

\* The handles a ResourceTable gives out: indices into the table.
Handles == 1..MaxRequests

\* The table has nothing at the index.
NoEntry == [kind |-> "NoEntry"]

\* No get or drop has returned.
NoRet == [fn |-> "none"]

\* No receiver is awaited.
NoReceiver == 0

\* oneshot::channel().1: the receiver of a channel whose sender is dropped
\* on the spot.  Awaiting it gives RecvError at once.
ClosedReceiver == -1

\* WasmInstance::new(engine, kubernetes_service, metadata).load(): a new
\* instance of the image metadata names, with nothing restored into it.
\* site records the call that built it: "cold" (run_components) or
\* "reload" (with_operator).
\* resources is the ResourceTable of the State its Store is created with.
NewInstance(n, metadata, site) ==
    [inst |-> n, metadata |-> metadata, restored |-> {}, site |-> site,
     resources |-> [h \in Handles |-> NoEntry]]

\* No task of the model.
NoTask == [id |-> "-", kind |-> "none"]

\* Proper prefixes of a byte string: what a write that fails part-way leaves.
Prefixes(bytes) == {SubSeq(bytes, 1, n) : n \in 0..(Len(bytes) - 1)}

(***************************************************************************)
(* The operator map.                                                       *)
(***************************************************************************)
\* A remove that only reads the entry, as operators.get(id) would.
RemoveSlotKeepsEntry(ops, id) == ops

\* self.operators.remove(id): the map after the call.
RemoveSlot(ops, id) == [ops EXCEPT ![id] = Absent]

\* self.operators.insert(id, state)
InsertSlot(ops, id, state) == [ops EXCEPT ![id] = state]

\* Which task holds the slot of id in its local op_state.
Holders(id) == {t \in Tasks : target[t] = id /\ op_state[t] # Absent}

HolderOf(id) == IF Holders(id) = {} THEN NoTask ELSE CHOOSE t \in Holders(id) : TRUE

\* A stagger sleep of no length.
StaggerUntilNow(at) == at

\* tokio::time::sleep(stagger_delay) called at the millisecond at: the
\* deadline of the sleep.
StaggerUntil(at) == at + stagger_delay

(***************************************************************************)
(* Init: WasmRuntime::new, before run_components runs.                     *)
(***************************************************************************)
\* The host as run_components is called with the list metadata.
Starting(metadata) ==
    /\ operators = [id \in OperatorIds |-> Absent]
    /\ files = [p \in Paths |-> {}]
    /\ now = 0
    /\ next_inst = 1
    /\ pc = [t \in Tasks |-> IF t = SCHED THEN "start" ELSE "unspawned"]
    /\ target = [t \in Tasks |-> "-"]
    /\ op_state = [t \in Tasks |-> Absent]
    /\ fresh = [t \in Tasks |-> {}]
    /\ data = [t \in Tasks |-> {}]
    /\ sched_i = 1
    /\ idle_ids = {}
    /\ wake_at = 0
    /\ consumed = [s \in Supervisors |-> 0]
    /\ reconcile_request = [s \in Supervisors |-> {}]
    /\ yielded = [s \in Supervisors |-> <<>>]
    /\ delivered = [s \in Supervisors |-> <<>>]
    /\ blocker = [t \in Tasks |-> NoTask]
    /\ snap = [id \in OperatorIds |-> {}]
    /\ returned = [t \in Callers |-> "none"]
    /\ unload_result = [id \in OperatorIds |-> "none"]
    /\ channels = <<>>
    /\ rx = [t \in Tasks |-> NoReceiver]
    /\ ret = NoRet
    /\ taken = [s \in Supervisors |-> <<>>]
    /\ requested = [id \in OperatorIds |-> {}]
    /\ components = metadata
    /\ ms = 0
    /\ stagger_until = StaggerUntil(0)
    /\ began = [id \in OperatorIds |-> {}]

Init == Starting(components_metadata)

(***************************************************************************)
(* with_operator(id, f), called by run_components (f = call_get_watch_     *)
(* requests) and by dispatch_reconcile (f = call_reconcile).               *)
(***************************************************************************)
\* bindings::local::operator::types::ReconcileRequest built by
\* dispatch_reconcile from the event type and the object.
ReconcileRequest(event_type, object) == [event_type |-> event_type, name |-> object]

\* The closure f starts to run: for a supervisor, call_reconcile is invoked
\* with the request the closure captured.
InvokeF(t) ==
    IF t \in Supervisors
    THEN delivered' = [delivered EXCEPT ![t] = Append(@, CHOOSE r \in reconcile_request'[t] : TRUE)]
    ELSE UNCHANGED delivered

\* The locals of with_operator / unload_component go out of scope.
DropLocals(t) ==
    /\ op_state' = [op_state EXCEPT ![t] = Absent]
    /\ fresh' = [fresh EXCEPT ![t] = {}]
    /\ data' = [data EXCEPT ![t] = {}]

\* A touch that stamps the slot with the instant the runtime was created.
TouchResets(state) == [state EXCEPT !.last_active = 0]

\* *last_active = Instant::now();
Touch(state) == [state EXCEPT !.last_active = now]

\* let mut op_state = self.operators.remove(id).unwrap().1; and, for a
\* Loaded slot, the branch up to the call of f.  ops is the map at the call.
with_operator_enter(t, id, ops) ==
    /\ target' = [target EXCEPT ![t] = id]
    /\ IF ops[id] = Absent
       THEN \* unwrap() on None panics: the task is gone.
            /\ operators' = ops
            /\ pc' = [pc EXCEPT ![t] = "panicked"]
            /\ blocker' = [blocker EXCEPT ![t] = HolderOf(id)]
            /\ UNCHANGED <<op_state, delivered>>
       ELSE /\ operators' = RemoveSlot(ops, id)
            /\ UNCHANGED blocker
            /\ IF ops[id].kind = "Unloaded"
               THEN /\ op_state' = [op_state EXCEPT ![t] = ops[id]]
                    /\ pc' = [pc EXCEPT ![t] = "wo_load"]
                    /\ UNCHANGED delivered
               ELSE \* *last_active = Instant::now(); store.lock().await; f(..)
                    /\ op_state' = [op_state EXCEPT ![t] = Touch(ops[id])]
                    /\ pc' = [pc EXCEPT ![t] = "wo_f"]
                    /\ InvokeF(t)

\* A dispatch_reconcile that propagates the error: the task ends with it.
AfterDispatchStopsOnErr(ok) == IF ok THEN "watching" ELSE "ended"

\* dispatch_reconcile has its result: `if let Err(e) = .. { error!(..) }`,
\* and the supervisor is back at watcher.next() either way.
AfterDispatch(ok) == "watching"

\* A cold start that spawns the supervisors of a request for every operator.
SpawnsForAll(id, watch_requests) == {x \in Supervisors : x.kind \in watch_requests}

\* for request in watch_requests { spawn_local(watch_and_reconcile(
\* operator_id_clone, request)) }: the tasks spawned.
Spawns(id, watch_requests) ==
    {x \in Supervisors : x.id = id /\ x.kind \in watch_requests}

\* with_operator has returned to its caller with Ok (ok) or Err: what the
\* caller does up to its next await.  watch_requests is the value of an Ok
\* returned to run_components.
AfterWithOperator(t, ok, watch_requests) ==
    IF t = SCHED
    THEN IF ok
         THEN \* spawn_local one watch_and_reconcile per request; next metadata,
              \* or, after the last one, tokio::spawn(idle_check_loop) and park.
              LET id == components[sched_i]
                  last == sched_i = Len(components)
              IN /\ pc' = [x \in Tasks |->
                             IF x \in Spawns(id, watch_requests) THEN "spawned"
                             ELSE IF x = SCHED THEN (IF last THEN "parked" ELSE "start")
                             ELSE IF x = REAPER /\ last THEN "sleeping"
                             ELSE pc[x]]
                 /\ sched_i' = sched_i + 1
                 /\ wake_at' = IF last THEN now + ReaperPeriod ELSE wake_at
                 /\ requested' = [requested EXCEPT ![id] = {watch_requests}]
                 /\ stagger_until' = IF last THEN stagger_until ELSE StaggerUntil(ms)
                 /\ UNCHANGED reconcile_request
         ELSE \* .await? : run_components returns the error.
              /\ pc' = [pc EXCEPT ![SCHED] = "failed"]
              /\ UNCHANGED <<sched_i, wake_at, reconcile_request, requested, stagger_until>>
    ELSE \* dispatch_reconcile logs an Err and returns; the loop goes on.
         /\ pc' = [pc EXCEPT ![t] = AfterDispatch(ok)]
         /\ reconcile_request' = [reconcile_request EXCEPT ![t] = {}]
         /\ UNCHANGED <<sched_i, wake_at, requested, stagger_until>>

\* An early return of with_operator through `?`: the locals, the slot held in
\* op_state among them, are dropped and nothing is inserted.
with_operator_fail(t) ==
    /\ DropLocals(t)
    /\ AfterWithOperator(t, FALSE, {})
    /\ returned' = [returned EXCEPT ![t] = "reload_err"]
    /\ UNCHANGED <<operators, files, now, next_inst, target, idle_ids, consumed,
                   yielded, delivered, blocker, snap, unload_result, channels, rx, ret,
                   taken, components, ms, began>>

\* A reload whose new Store is given the entries of the requests made so
\* far, under the handles they had.
ReloadedWithTable(n, metadata) ==
    [NewInstance(n, metadata, "reload") EXCEPT
        !.resources = [h \in Handles |->
            IF \E c \in 1..Len(channels) : channels[c].handle = h
            THEN LET c == CHOOSE x \in 1..Len(channels) : channels[x].handle = h
                 IN [kind |-> "FutureResponse", receiver |-> c, req |-> c, gets |-> 0]
            ELSE NoEntry]]

\* let (operator, mut store) = wasm_instance.load().await?; the instance
\* and its Store are new, and so is the ResourceTable of the Store's State.
Reloaded(n, metadata) == NewInstance(n, metadata, "reload")

\* wasm_instance.load().await? of a reload.
with_operator_load(t) ==
    /\ pc[t] = "wo_load"
    /\ \/ /\ fresh' = [fresh EXCEPT ![t] = {Reloaded(next_inst, op_state[t].metadata)}]
          /\ next_inst' = next_inst + 1
          /\ pc' = [pc EXCEPT ![t] = "wo_read"]
          /\ UNCHANGED <<operators, files, now, target, op_state, data, sched_i,
                         idle_ids, wake_at, consumed, reconcile_request, yielded,
                         delivered, blocker, snap, returned, unload_result, channels, rx, ret, taken, requested, components, ms, stagger_until, began>>
       \/ with_operator_fail(t)

\* let saved_state = tokio::fs::read(&state_path).await?;
ReadFile(path) == files[path]

\* A reload that goes from the read straight to f.
AfterReadSkipsDeserialize == "wo_f"

\* Where with_operator stands after the read: call_deserialize is its next await.
AfterRead == "wo_deser"

with_operator_read(t) ==
    /\ pc[t] = "wo_read"
    /\ \/ /\ ReadFile(op_state[t].state_path) # {}
          /\ data' = [data EXCEPT ![t] = ReadFile(op_state[t].state_path)]
          /\ pc' = [pc EXCEPT ![t] = AfterRead]
          /\ UNCHANGED <<operators, files, now, next_inst, target, op_state, fresh,
                         sched_i, idle_ids, wake_at, consumed, reconcile_request,
                         yielded, delivered, blocker, snap, returned, unload_result, channels, rx, ret, taken, requested, components, ms, stagger_until, began>>
       \/ with_operator_fail(t)

\* operator.call_deserialize(&mut store, &saved_state).await?; then f starts.
with_operator_deserialize(t) ==
    /\ pc[t] = "wo_deser"
    /\ rx[t] = NoReceiver
    /\ \/ /\ fresh' = [fresh EXCEPT ![t] = {[i EXCEPT !.restored = data[t]] : i \in @}]
          /\ pc' = [pc EXCEPT ![t] = "wo_f"]
          /\ UNCHANGED reconcile_request
          /\ InvokeF(t)
          /\ UNCHANGED <<operators, files, now, next_inst, target, op_state, data,
                         sched_i, idle_ids, wake_at, consumed, yielded, blocker, snap, returned, unload_result, channels, rx, ret, taken, requested, components, ms, stagger_until, began>>
       \/ with_operator_fail(t)

\* A with_operator that puts back the state it took, whatever it was.
StateAfterFKeepsUnloaded(t) == op_state[t]

\* The state with_operator inserts once f has returned: a reloaded operator
\* becomes Loaded with last_active = Instant::now(); a Loaded one goes back
\* as it is (its last_active was set before f ran).
StateAfterF(t) ==
    IF op_state[t].kind = "Unloaded"
    THEN Loaded(CHOOSE i \in fresh[t] : TRUE, now, op_state[t].metadata)
    ELSE op_state[t]

\* result = f(..).await; self.operators.insert(id.to_string(), op_state); result
with_operator_f(t) ==
    /\ pc[t] = "wo_f"
    /\ rx[t] = NoReceiver
    /\ operators' = InsertSlot(operators, target[t], StateAfterF(t))
    /\ DropLocals(t)
    /\ \E ok \in BOOLEAN :
         /\ returned' = [returned EXCEPT ![t] = IF ok THEN "ok" ELSE "f_err"]
         /\ \E watch_requests \in (IF t = SCHED /\ ok THEN SUBSET WatchKinds ELSE {{}}) :
               AfterWithOperator(t, ok, watch_requests)
    /\ UNCHANGED <<files, now, next_inst, target, idle_ids, consumed, yielded,
                   delivered, blocker, snap, unload_result, channels, rx, ret, taken,
                   components, ms, began>>

(***************************************************************************)
(* run_components: the cold-start loop.                                    *)
(***************************************************************************)
\* tokio::time::sleep(stagger_delay).await
run_components_sleep ==
    /\ pc[SCHED] = "start"
    /\ pc' = [pc EXCEPT ![SCHED] = "load"]
    /\ UNCHANGED <<operators, files, now, next_inst, target, op_state, fresh, data,
                   sched_i, idle_ids, wake_at, consumed, reconcile_request, yielded,
                   delivered, blocker, snap, returned, unload_result, channels, rx, ret, taken, requested, components, ms, stagger_until, began>>

\* instance.load().await?; insert Loaded; with_operator(call_get_watch_requests)
run_components_load ==
    /\ pc[SCHED] = "load"
    /\ LET id == components[sched_i]
       IN /\ began' = [began EXCEPT ![id] = {ms}]
          /\ \/ /\ next_inst' = next_inst + 1
                /\ with_operator_enter(SCHED, id,
                       InsertSlot(operators, id, Loaded(NewInstance(next_inst, id, "cold"), now, id)))
                /\ UNCHANGED <<files, now, fresh, data, sched_i, idle_ids, wake_at,
                               consumed, reconcile_request, yielded, snap, returned,
                               unload_result, channels, rx, ret, taken, requested,
                               components, ms, stagger_until>>
             \/ /\ pc' = [pc EXCEPT ![SCHED] = "failed"]
                /\ UNCHANGED <<operators, files, now, next_inst, target, op_state, fresh,
                               data, sched_i, idle_ids, wake_at, consumed,
                               reconcile_request, yielded, delivered, blocker, snap,
                               returned, unload_result, channels, rx, ret, taken,
                               requested, components, ms, stagger_until>>

\* The same sleep seen by the timer: it is over at the first tick of the
\* timer at or after its deadline.
run_components_stagger ==
    /\ ms >= stagger_until
    /\ run_components_sleep

\* The timer ticks.
TimerTick ==
    /\ ms < MaxTimerTicks * TimerStep
    /\ ms' = ms + TimerStep
    /\ UNCHANGED <<operators, files, now, next_inst, pc, target, op_state, fresh, data,
                   sched_i, idle_ids, wake_at, consumed, reconcile_request, yielded,
                   delivered, blocker, snap, returned, unload_result, channels, rx, ret,
                   taken, requested, components, stagger_until, began>>

(***************************************************************************)
(* watch_and_reconcile and dispatch_reconcile: one task per WatchRequest.  *)
(***************************************************************************)
\* What watcher.next().await may yield.
OkEvents == {"Apply", "Delete", "InitApply", "Init", "InitDone"}
StreamItems == OkEvents \cup {"Err", "None"}

\* The match on the event: Apply and InitApply map to Added, Delete to
\* Deleted, anything else is skipped with continue.
Dispatched == {"Apply", "Delete", "InitApply"}

\* A match that maps every event it dispatches to Added.
EventTypeAllAdded(event) == "Added"

\* The event type of the request for a mapped event.
EventType(event) ==
    CASE event = "Apply" -> "Added"
      [] event = "Delete" -> "Deleted"
      [] event = "InitApply" -> "Added"

\* client.find_api_resource(&request.kind): Err returns from the task, Ok
\* builds the watcher.
watch_and_reconcile_start(s) ==
    /\ pc[s] = "spawned"
    /\ \E found \in BOOLEAN : pc' = [pc EXCEPT ![s] = IF found THEN "watching" ELSE "ended"]
    /\ UNCHANGED <<operators, files, now, next_inst, target, op_state, fresh, data,
                   sched_i, idle_ids, wake_at, consumed, reconcile_request, yielded,
                   delivered, blocker, snap, returned, unload_result, channels, rx, ret, taken, requested, components, ms, stagger_until, began>>

\* Items taken from the watch streams so far.
RECURSIVE Sum(_, _)
Sum(f, S) == IF S = {} THEN 0 ELSE LET x == CHOOSE y \in S : TRUE IN f[x] + Sum(f, S \ {x})

Consumed == Sum(consumed, Supervisors)

\* A loop that a stream error ends like the end of the stream.
AfterSkippedErrEnds(item) == IF item \in {"None", "Err"} THEN "ended" ELSE "watching"

\* Where the loop stands after an item that is not dispatched: Init and
\* InitDone continue, Err is logged and the loop goes on, None breaks.
AfterSkipped(item) == IF item = "None" THEN "ended" ELSE "watching"

\* One turn of the loop on the item watcher.next().await gave: the match,
\* and for a mapped event dispatch_reconcile up to the first await of
\* with_operator.  The object of the k-th item of a stream is named k.
watch_and_reconcile_turn(s, item) ==
    /\ pc[s] = "watching"
    /\ Consumed < MaxEvents
    /\ consumed' = [consumed EXCEPT ![s] = @ + 1]
    /\ LET object == consumed[s] + 1
       IN IF item \in Dispatched
          THEN /\ yielded' = [yielded EXCEPT ![s] = Append(@, [event |-> item, object |-> object])]
               /\ reconcile_request' =
                      [reconcile_request EXCEPT ![s] = {ReconcileRequest(EventType(item), object)}]
               /\ with_operator_enter(s, s.id, operators)
          ELSE /\ pc' = [pc EXCEPT ![s] = AfterSkipped(item)]
               /\ UNCHANGED <<operators, target, op_state, reconcile_request, yielded,
                              delivered, blocker>>
    /\ UNCHANGED <<files, now, next_inst, fresh, data, sched_i, idle_ids, wake_at,
                   snap, returned, unload_result, channels, rx, ret, requested, components, ms, stagger_until, began>>

\* loop { match watcher.next().await { .. } }
watch_and_reconcile_next(s) ==
    \E item \in StreamItems : watch_and_reconcile_turn(s, item) /\ UNCHANGED taken

\* The same turn of the loop, with the item taken noted in the history.
watch_and_reconcile_noted(s) ==
    \E item \in StreamItems :
        /\ watch_and_reconcile_turn(s, item)
        /\ taken' = [taken EXCEPT ![s] = Append(@, item)]

(***************************************************************************)
(* idle_check_loop and unload_component: the reaper.                       *)
(***************************************************************************)
\* An idle test with the comparison the wrong way round.
IsIdleInverted(last_active) == now - last_active < IDLE_THRESHOLD

\* An idle test that also takes an operator idle for exactly the threshold.
IsIdleInclusive(last_active) == now - last_active >= IDLE_THRESHOLD

\* last_active.elapsed() > IDLE_THRESHOLD
IsIdle(last_active) == now - last_active > IDLE_THRESHOLD

\* The filter_map over self.operators.
IdleIds == {id \in OperatorIds :
              operators[id].kind = "Loaded" /\ IsIdle(operators[id].last_active)}

\* The reaper is back in its loops after an unload_component call: the next
\* id of the sweep, or the next sleep.  left is what remains of idle_ids.
AfterUnload(left) ==
    /\ idle_ids' = left
    /\ pc' = [pc EXCEPT ![REAPER] = IF left = {} THEN "sleeping" ELSE "sweep"]
    /\ wake_at' = IF left = {} THEN now + ReaperPeriod ELSE wake_at

\* tokio::time::sleep(IDLE_THRESHOLD / 2).await is over; collect idle_ids.
idle_check_loop_collect ==
    /\ pc[REAPER] = "sleeping"
    /\ now >= wake_at
    /\ AfterUnload(IdleIds)
    /\ UNCHANGED <<operators, files, now, next_inst, target, op_state, fresh, data,
                   sched_i, consumed, reconcile_request, yielded, delivered, blocker,
                   snap, returned, unload_result, channels, rx, ret, taken, requested, components, ms, stagger_until, began>>

\* An else branch that forgets the insert: the state taken out is dropped.
PutBackDrops(ops, id) == RemoveSlot(ops, id)

\* unload_component's else branch: the state remove(id) gave is not Loaded
\* and is put back as it is, self.operators.insert(id.clone(), op_state).
PutBack(ops, id) == InsertSlot(RemoveSlot(ops, id), id, ops[id])

\* for id in idle_ids { self.unload_component(&id).await }: the call, up to
\* its first await.  DashMap iterates in no particular order.
idle_check_loop_unload ==
    /\ pc[REAPER] = "sweep"
    /\ \E id \in idle_ids :
         /\ target' = [target EXCEPT ![REAPER] = id]
         /\ blocker' = [blocker EXCEPT ![REAPER] =
                           IF operators[id] = Absent THEN HolderOf(id) ELSE NoTask]
         /\ IF operators[id].kind = "Loaded"
            THEN \* store.lock().await; operator.call_serialize(..) starts.
                 /\ operators' = RemoveSlot(operators, id)
                 /\ op_state' = [op_state EXCEPT ![REAPER] = operators[id]]
                 /\ pc' = [pc EXCEPT ![REAPER] = "un_ser"]
                 /\ idle_ids' = idle_ids \ {id}
                 /\ UNCHANGED wake_at
            ELSE \* remove gave None, or an Unloaded state that is put back.
                 /\ AfterUnload(idle_ids \ {id})
                 /\ operators' = IF operators[id].kind = "Unloaded"
                                  THEN PutBack(operators, id)
                                  ELSE operators
                 /\ UNCHANGED op_state
         /\ unload_result' =
               [unload_result EXCEPT ![id] =
                   CASE operators[id].kind = "Loaded" -> @
                     [] operators[id].kind = "Unloaded" -> "put_back"
                     [] OTHER -> "absent"]
    /\ UNCHANGED <<files, now, next_inst, fresh, data, sched_i, consumed,
                   reconcile_request, yielded, delivered, snap, returned, channels, rx, ret, taken, requested, components, ms, stagger_until, began>>

\* A reaper that propagates the error of unload_component: the task ends.
unload_component_fail_stops ==
    /\ DropLocals(REAPER)
    /\ pc' = [pc EXCEPT ![REAPER] = "ended"]
    /\ unload_result' = [unload_result EXCEPT ![target[REAPER]] = "err"]
    /\ UNCHANGED <<operators, now, next_inst, target, sched_i, consumed,
                   reconcile_request, yielded, delivered, blocker, snap, returned,
                   idle_ids, wake_at, channels, rx, ret, taken, requested, components, ms, stagger_until, began>>

\* An early return of unload_component through `?`: op_state is dropped and
\* nothing is inserted.  idle_check_loop logs the Err and goes on.
unload_component_fail ==
    /\ DropLocals(REAPER)
    /\ AfterUnload(idle_ids)
    /\ unload_result' = [unload_result EXCEPT ![target[REAPER]] = "err"]
    /\ UNCHANGED <<operators, now, next_inst, target, sched_i, consumed,
                   reconcile_request, yielded, delivered, blocker, snap, returned, channels, rx, ret, taken, requested, components, ms, stagger_until, began>>

\* let memory_data = operator.call_serialize(&mut *store_guard).await?;
unload_component_serialize ==
    /\ pc[REAPER] = "un_ser"
    /\ rx[REAPER] = NoReceiver
    /\ \/ /\ \E memory_data \in Blobs : data' = [data EXCEPT ![REAPER] = {memory_data}]
          /\ pc' = [pc EXCEPT ![REAPER] = "un_mkdir"]
          /\ UNCHANGED <<operators, files, now, next_inst, target, op_state, fresh,
                         sched_i, idle_ids, wake_at, consumed, reconcile_request,
                         yielded, delivered, blocker, snap, returned, unload_result, channels, rx, ret, taken, requested, components, ms, stagger_until, began>>
       \/ unload_component_fail /\ UNCHANGED files

\* tokio::fs::create_dir_all(parent).await?;
unload_component_create_dir ==
    /\ pc[REAPER] = "un_mkdir"
    /\ \/ /\ pc' = [pc EXCEPT ![REAPER] = "un_write"]
          /\ UNCHANGED <<operators, files, now, next_inst, target, op_state, fresh,
                         data, sched_i, idle_ids, wake_at, consumed, reconcile_request,
                         yielded, delivered, blocker, snap, returned, unload_result, channels, rx, ret, taken, requested, components, ms, stagger_until, began>>
       \/ unload_component_fail /\ UNCHANGED files

\* A write that reports success one byte short.
WrittenFileShort(memory_data) == {SubSeq(memory_data, 1, Len(memory_data) - 1)}

\* What tokio::fs::write(&state_path, &memory_data) leaves at the path when
\* it succeeds.
WrittenFile(memory_data) == {memory_data}

\* What it may leave when it fails: the old file (the open failed) or a
\* truncated one holding a proper prefix of the bytes.
FailedWrite(path, memory_data) == {files[path]} \cup {{b} : b \in Prefixes(memory_data)}

\* tokio::fs::write(..).await?; then insert OperatorState::Unloaded.
unload_component_write ==
    /\ pc[REAPER] = "un_write"
    /\ LET id == target[REAPER]
           state_path == StatePath(id)
           memory_data == CHOOSE b \in data[REAPER] : TRUE
       IN \/ /\ files' = [files EXCEPT ![state_path] = WrittenFile(memory_data)]
             /\ operators' = InsertSlot(operators, id,
                                 Unloaded(state_path, op_state[REAPER].metadata))
             /\ snap' = [snap EXCEPT ![id] = {memory_data}]
             /\ DropLocals(REAPER)
             /\ AfterUnload(idle_ids)
             /\ unload_result' = [unload_result EXCEPT ![id] = "ok"]
             /\ UNCHANGED <<now, next_inst, target, sched_i, consumed,
                            reconcile_request, yielded, delivered, blocker,
                            returned, channels, rx, ret, taken, requested, components, ms, stagger_until, began>>
          \/ /\ \E left \in FailedWrite(state_path, memory_data) :
                   files' = [files EXCEPT ![state_path] = left]
             /\ unload_component_fail

(***************************************************************************)
(* Time.                                                                   *)
(***************************************************************************)
Tick ==
    /\ now < MaxTicks * ReaperPeriod
    /\ now' = now + ReaperPeriod
    /\ UNCHANGED <<operators, files, next_inst, pc, target, op_state, fresh, data,
                   sched_i, idle_ids, wake_at, consumed, reconcile_request, yielded,
                   delivered, blocker, snap, returned, unload_result, channels, rx, ret, taken, requested, components, ms, stagger_until, began>>

(***************************************************************************)
(* The host bridge (parent/src/runtime/wasm.rs): what a guest may call     *)
(* while one of its entry points runs.  send_request spawns a task that    *)
(* executes the request and sends the result down a oneshot channel, and   *)
(* pushes the receiver into the instance's ResourceTable; get awaits the   *)
(* receiver of an entry; drop deletes an entry.                            *)
(***************************************************************************)
\* k8s_http::Request, by what execute_request looks at: a request that
\* gets through, one whose uri does not parse, one with a bad header name.
GoodUri == "/apis/amurant.io/v1/namespaces/default/testresources"
Accept == [name |-> "accept", value |-> "application/json"]
Requests ==
    {[method |-> "GET", uri |-> GoodUri, headers |-> <<Accept>>],
     [method |-> "GET", uri |-> "http://[::1", headers |-> <<Accept>>],
     [method |-> "GET", uri |-> GoodUri, headers |-> <<[name |-> "content type", value |-> "x"]>>]}

\* What the cluster does with a request that reaches it: answers with the
\* object asked for, answers with a non-2xx Status document, or the
\* connection fails.
Replies == {"Object", "Status", "NoConnection"}

\* No request reached the cluster.
NoReply == "-"

\* Result<Response, String>
Ok(body) == [ok |-> TRUE, body |-> body]
Err(e) == [ok |-> FALSE, err |-> e]

\* http::Uri::from_str(&request.uri)
UriFromStr(uri) == IF uri = GoodUri THEN Ok(uri) ELSE Err("invalid uri character")

\* http::Method::from_str(&request.method.to_string()), on what Display
\* writes for the methods of the interface.
MethodFromStr(method) ==
    IF method \in {"GET", "POST", "PUT", "DELETE", "PATCH"}
    THEN Ok(method) ELSE Err("invalid HTTP method")

\* hyper::Request::builder().method(..).uri(..).header(..) .. .body(..):
\* Err when a header name or value is not one.
Build(request) ==
    IF \A k \in 1..Len(request.headers) : request.headers[k].name \in {"accept", "content-type"}
    THEN Ok(request) ELSE Err("invalid HTTP header name")

\* k8s_service.send_request::<Value>(http_request): the JSON the cluster
\* answered with, a Status document included; Err when no answer came.
SendRequest(reply) == IF reply = "NoConnection" THEN Err("connection refused") ELSE Ok(reply)

\* serde_json::to_vec(&response): the bytes of the JSON document.
ToVec(value) == <<"json", value>>

\* What the cluster may do with the request: it gets there when the URI
\* and the method parse.
Reached(request) ==
    IF UriFromStr(request.uri).ok /\ MethodFromStr(request.method).ok /\ Build(request).ok
    THEN Replies ELSE {NoReply}

\* An execute_request that takes a Status answer for a failure.
execute_request_status_is_err(request, reply) ==
    IF ~UriFromStr(request.uri).ok THEN Err("Invalid URI")
    ELSE IF ~MethodFromStr(request.method).ok THEN Err("Invalid method")
    ELSE IF ~Build(request).ok THEN Err("Failed to build request")
    ELSE IF ~SendRequest(reply).ok \/ reply = "Status" THEN Err("Failed to send request")
    ELSE Ok(ToVec(SendRequest(reply).body))

\* async fn execute_request(k8s_service, request) -> Result<Response, String>
execute_request(request, reply) ==
    IF ~UriFromStr(request.uri).ok THEN Err("Invalid URI")
    ELSE IF ~MethodFromStr(request.method).ok THEN Err("Invalid method")
    ELSE IF ~Build(request).ok THEN Err("Failed to build request")
    ELSE IF ~SendRequest(reply).ok THEN Err("Failed to send request")
    ELSE Ok(ToVec(SendRequest(reply).body))

\* FutureResponse { receiver } as an entry of the table.  req and gets are
\* history: the request send_request pushed the entry for, and how many
\* times get took the entry's receiver.
FutureResponse(receiver, req, gets) ==
    [kind |-> "FutureResponse", receiver |-> receiver, req |-> req, gets |-> gets]

\* The instance whose entry point task t is running: the one of the Loaded
\* state it holds, or the one it built for the reload.
InstanceOf(t) ==
    IF op_state[t].kind = "Loaded" THEN op_state[t].operator ELSE CHOOSE i \in fresh[t] : TRUE

\* The guest of the instance task t drives is executing: an entry point is
\* in progress and it is not suspended in a get.
GuestRuns(t) == pc[t] \in {"wo_deser", "wo_f", "un_ser"} /\ rx[t] = NoReceiver

\* The instance of task t gets the table resources.
SetResources(t, resources) ==
    IF op_state[t].kind = "Loaded"
    THEN /\ op_state' = [op_state EXCEPT ![t].operator.resources = resources]
         /\ UNCHANGED fresh
    ELSE /\ fresh' = [fresh EXCEPT ![t] = {[i EXCEPT !.resources = resources] : i \in @}]
         /\ UNCHANGED op_state

\* The instances that exist: in the map, or in the locals of a task.
Instances ==
    {operators[id].operator : id \in {x \in OperatorIds : operators[x].kind = "Loaded"}}
    \cup {op_state[t].operator : t \in {x \in Tasks : op_state[x].kind = "Loaded"}}
    \cup UNION {fresh[t] : t \in Tasks}

\* The receiver of channel c has not been dropped: an entry of an existing
\* table holds it, or a get awaits it.
ReceiverAlive(c) ==
    \/ \E i \in Instances, h \in Handles :
          i.resources[h] # NoEntry /\ i.resources[h].receiver = c
    \/ \E t \in Tasks : rx[t] = c

\* self.resources.push(future_response): the indices push may return.
Push(resources) == {h \in Handles : resources[h] = NoEntry}

\* A send_request that awaits execute_request before it returns.
SpawnedInline(request) ==
    {[request |-> request, state |-> "sent", reply |-> reply,
      value |-> {execute_request(request, reply)}] : reply \in Reached(request)}

\* tokio::spawn(async move { .. }): the task starts with the sender.
Spawned(request) == {[request |-> request, state |-> "running", reply |-> NoReply, value |-> {}]}

\* Host::send_request: make the channel, spawn the task, push the receiver,
\* return the handle at once.  by and handle are history: the instance that
\* called and the handle push returned to it.
send_request(t) ==
    /\ GuestRuns(t)
    /\ Len(channels) < MaxRequests
    /\ \E request \in Requests, h \in Push(InstanceOf(t).resources) :
         /\ \E ch \in Spawned(request) :
              channels' = Append(channels, [by |-> InstanceOf(t).inst, handle |-> h] @@ ch)
         /\ SetResources(t, [InstanceOf(t).resources EXCEPT
                ![h] = FutureResponse(Len(channels) + 1, Len(channels) + 1, 0)])
    /\ UNCHANGED <<operators, files, now, next_inst, pc, target, data, sched_i,
                   idle_ids, wake_at, consumed, reconcile_request, yielded, delivered,
                   blocker, snap, returned, unload_result, rx, ret, taken, requested, components, ms, stagger_until, began>>

\* A task that is cancelled when the receiver of its channel is dropped.
TaskRunsWhileAwaited(c) == channels[c].state = "running" /\ ReceiverAlive(c)

\* The task tokio::spawn started is detached (its JoinHandle is dropped at
\* once): it runs until its future completes, whatever becomes of the
\* receiver.
TaskRuns(c) == channels[c].state = "running"

\* The spawned task: execute_request(..).await, then sender.send(result),
\* which fails when the receiver was dropped: the result is dropped with it.
send_request_task(c) ==
    /\ c <= Len(channels)
    /\ TaskRuns(c)
    /\ \E reply \in Reached(channels[c].request) :
         channels' = [channels EXCEPT ![c] =
             IF ReceiverAlive(c)
             THEN [@ EXCEPT !.reply = reply, !.state = "sent",
                            !.value = {execute_request(channels[c].request, reply)}]
             ELSE [@ EXCEPT !.reply = reply, !.state = "receiver dropped"]]
    /\ UNCHANGED <<operators, files, now, next_inst, pc, target, op_state, fresh, data,
                   sched_i, idle_ids, wake_at, consumed, reconcile_request, yielded,
                   delivered, blocker, snap, returned, unload_result, rx, ret, taken, requested, components, ms, stagger_until, began>>

\* What a get or a drop returned, for the history: the function, the
\* instance and the handle, the request the entry was pushed for, how many
\* gets the entry has seen, the other instances with an entry under the
\* same handle, the result.
Ret(fn, t, h, entry, result) ==
    [fn |-> fn, inst |-> InstanceOf(t).inst, handle |-> h,
     req |-> IF entry = NoEntry THEN 0 ELSE entry.req,
     nth |-> IF entry = NoEntry THEN 0 ELSE entry.gets + (IF fn = "get" THEN 1 ELSE 0),
     others |-> {i.inst : i \in {x \in Instances :
                    x.inst # InstanceOf(t).inst /\ x.resources[h] # NoEntry}},
     result |-> result]

\* A get that leaves the receiver in the entry.
TakenKeepsReceiver(entry) == [entry EXCEPT !.gets = @ + 1]

\* mem::replace(&mut future.receiver, oneshot::channel().1): the entry stays
\* in the table, with a receiver nothing will ever be sent to.
Taken(entry) == [entry EXCEPT !.receiver = ClosedReceiver, !.gets = @ + 1]

\* A get that deletes the entry it resolved.
AfterGetDeletes(resources, h) == [resources EXCEPT ![h] = NoEntry]

\* The table after get(h) on an entry: get_mut borrows the entry, nothing
\* is deleted.
AfterGet(resources, h) == [resources EXCEPT ![h] = Taken(@)]

\* A lookup in one table for all the instances: the entry any of them has
\* under the handle.
LookupAnywhere(t, h) ==
    IF \E i \in Instances : i.resources[h] # NoEntry
    THEN (CHOOSE i \in Instances : i.resources[h] # NoEntry).resources[h]
    ELSE NoEntry

\* self.resources.get_mut(&entry): the table is the one of the State of
\* the calling instance's Store.
Lookup(t, h) == InstanceOf(t).resources[h]

\* HostFutureResponse::get up to rx.await: get_mut fails on an unknown
\* handle; a receiver whose channel is settled is ready at the first poll.
get(t, h) ==
    /\ GuestRuns(t)
    /\ LET resources == InstanceOf(t).resources
           entry == Lookup(t, h)
       IN IF entry = NoEntry
          THEN /\ ret' = Ret("get", t, h, entry, Err("unknown handle"))
               /\ UNCHANGED <<op_state, fresh, rx>>
          ELSE /\ entry.gets < MaxGets
               /\ SetResources(t, AfterGet(resources, h))
               /\ IF entry.receiver = ClosedReceiver
                  THEN /\ ret' = Ret("get", t, h, entry, Err("channel closed"))
                       /\ UNCHANGED rx
                  ELSE IF channels[entry.receiver].state = "sent"
                  THEN /\ ret' = Ret("get", t, h, entry,
                                      CHOOSE r \in channels[entry.receiver].value : TRUE)
                       /\ UNCHANGED rx
                  ELSE /\ rx' = [rx EXCEPT ![t] = entry.receiver]
                       /\ UNCHANGED ret
    /\ UNCHANGED <<operators, files, now, next_inst, pc, target, data, sched_i,
                   idle_ids, wake_at, consumed, reconcile_request, yielded, delivered,
                   blocker, snap, returned, unload_result, channels, taken, requested, components, ms, stagger_until, began>>

\* rx.await of a get that had to wait: the task has sent the result.
get_await(t) ==
    /\ rx[t] # NoReceiver
    /\ channels[rx[t]].state = "sent"
    /\ \E h \in Handles :
         LET entry == InstanceOf(t).resources[h]
         IN /\ entry # NoEntry
            /\ entry.req = rx[t]
            /\ ret' = Ret("get", t, h, [entry EXCEPT !.gets = @ - 1],
                           CHOOSE r \in channels[rx[t]].value : TRUE)
    /\ rx' = [rx EXCEPT ![t] = NoReceiver]
    /\ UNCHANGED <<operators, files, now, next_inst, pc, target, op_state, fresh, data,
                   sched_i, idle_ids, wake_at, consumed, reconcile_request, yielded,
                   delivered, blocker, snap, returned, unload_result, channels, taken, requested, components, ms, stagger_until, began>>

\* self.resources.delete(rep)
Deleted(resources, h) == [resources EXCEPT ![h] = NoEntry]

\* HostFutureResponse::drop: self.resources.delete(rep)?.  On an unknown
\* handle the Err traps the guest: its entry point returns Err.
drop(t, h) ==
    /\ GuestRuns(t)
    /\ InstanceOf(t).resources[h] # NoEntry
    /\ SetResources(t, Deleted(InstanceOf(t).resources, h))
    /\ ret' = Ret("drop", t, h, InstanceOf(t).resources[h], Ok(<<>>))
    /\ UNCHANGED <<operators, files, now, next_inst, pc, target, data, sched_i,
                   idle_ids, wake_at, consumed, reconcile_request, yielded, delivered,
                   blocker, snap, returned, unload_result, channels, rx, taken, requested, components, ms, stagger_until, began>>

(***************************************************************************)
(* The specification.                                                      *)
(***************************************************************************)
Next ==
    \/ run_components_sleep
    \/ run_components_load
    \/ \E t \in Callers : with_operator_load(t)
    \/ \E t \in Callers : with_operator_read(t)
    \/ \E t \in Callers : with_operator_deserialize(t)
    \/ \E t \in Callers : with_operator_f(t)
    \/ \E s \in Supervisors : watch_and_reconcile_start(s)
    \/ \E s \in Supervisors : watch_and_reconcile_next(s)
    \/ idle_check_loop_collect
    \/ idle_check_loop_unload
    \/ unload_component_serialize
    \/ unload_component_create_dir
    \/ unload_component_write
    \/ Tick

Spec == Init /\ [][Next]_vars

(***************************************************************************)
(* The reaper on its own: idle_check_loop in its sleep or at the head of    *)
(* its for loop, in a host whose cold start has registered every operator  *)
(* of OperatorIds and spawned no supervisor.  Each operator is Loaded      *)
(* (since cold start) or Unloaded with its state file, and idle_ids is any *)
(* list of ids: unload_component is entered with every kind of slot.       *)
(***************************************************************************)
\* The instants of the model's clock.
Instants == {k * ReaperPeriod : k \in 0..MaxTicks}

\* The instance load() built for id at cold start.
ColdInstance(id) == NewInstance(IF id = "t1" THEN 1 ELSE 2, id, "cold")

\* The slots id may have at instant n.
SlotsAt(id, n) ==
    {Loaded(ColdInstance(id), last_active, id) :
        last_active \in {i \in Instants : i <= n}}
    \cup {Unloaded(StatePath(id), id)}

SweepInit ==
    /\ now \in Instants
    /\ operators \in [OperatorIds -> UNION {SlotsAt(id, now) : id \in OperatorIds}]
    /\ \A id \in OperatorIds : operators[id] \in SlotsAt(id, now)
    /\ snap \in [OperatorIds -> {{}} \cup {{b} : b \in Blobs}]
    /\ \A id \in OperatorIds : snap[id] # {} <=> operators[id].kind = "Unloaded"
    /\ files = [path \in Paths |->
                  snap[CHOOSE id \in OperatorIds : StatePath(id) = path]]
    /\ next_inst = Cardinality(OperatorIds) + 1
    /\ idle_ids \in SUBSET OperatorIds
    /\ pc = [t \in Tasks |->
                IF t = SCHED THEN "parked"
                ELSE IF t = REAPER THEN (IF idle_ids = {} THEN "sleeping" ELSE "sweep")
                ELSE "unspawned"]
    /\ wake_at \in IF idle_ids = {} THEN {now, now + ReaperPeriod} ELSE {now}
    /\ sched_i = Len(components_metadata) + 1
    /\ target = [t \in Tasks |-> "-"]
    /\ op_state = [t \in Tasks |-> Absent]
    /\ fresh = [t \in Tasks |-> {}]
    /\ data = [t \in Tasks |-> {}]
    /\ consumed = [s \in Supervisors |-> 0]
    /\ reconcile_request = [s \in Supervisors |-> {}]
    /\ yielded = [s \in Supervisors |-> <<>>]
    /\ delivered = [s \in Supervisors |-> <<>>]
    /\ blocker = [t \in Tasks |-> NoTask]
    /\ returned = [t \in Callers |-> "none"]
    /\ unload_result = [id \in OperatorIds |-> "none"]
    /\ channels = <<>>
    /\ rx = [t \in Tasks |-> NoReceiver]
    /\ ret = NoRet
    /\ taken = [s \in Supervisors |-> <<>>]
    /\ requested = [id \in OperatorIds |-> {}]
    /\ components = components_metadata
    /\ ms = 0
    /\ stagger_until = StaggerUntil(0)
    /\ began = [id \in OperatorIds |-> {}]

SweepNext ==
    \/ idle_check_loop_collect
    \/ idle_check_loop_unload
    \/ unload_component_serialize
    \/ unload_component_create_dir
    \/ unload_component_write
    \/ Tick

SweepSpec == SweepInit /\ [][SweepNext]_vars

\* The reaper is a task of its own (tokio::spawn) whose awaits, a sleep, the
\* guest's serialize and two file system calls, each complete; time passes.
Fairness ==
    /\ WF_vars(Tick)
    /\ WF_vars(idle_check_loop_collect)
    /\ WF_vars(idle_check_loop_unload)
    /\ WF_vars(unload_component_serialize)
    /\ WF_vars(unload_component_create_dir)
    /\ WF_vars(unload_component_write)

SweepLiveSpec == SweepSpec /\ Fairness

\* id is one of components_metadata.
Started(id) == \E k \in 1..Len(components_metadata) : components_metadata[k] = id

(***************************************************************************)
(* Guests at work: the host at the instant 0 of its clock, cold start      *)
(* done, with the first event of some supervisors' streams, an Apply,      *)
(* dispatched and call_reconcile running in their operators.  The streams  *)
(* yield nothing more.                                                     *)
(***************************************************************************)
\* The request dispatch_reconcile built for the first event of a stream.
FirstRequest == ReconcileRequest(EventType("Apply"), 1)

\* The state with the supervisors of S inside with_operator's f, and the
\* operators of no supervisor of S not part of the host.
InReconcile(S) ==
    /\ now = 0
    /\ operators = [id \in OperatorIds |-> Absent]
    /\ files = [p \in Paths |-> {}]
    /\ next_inst = Cardinality(OperatorIds) + 1
    /\ pc = [t \in Tasks |->
                IF t = SCHED THEN "parked"
                ELSE IF t = REAPER THEN "sleeping"
                ELSE IF t \in S THEN "wo_f"
                ELSE "unspawned"]
    /\ wake_at = ReaperPeriod
    /\ sched_i = Len(components_metadata) + 1
    /\ idle_ids = {}
    /\ target = [t \in Tasks |-> IF t \in S THEN t.id ELSE "-"]
    /\ op_state = [t \in Tasks |->
                      IF t \in S THEN Loaded(ColdInstance(t.id), 0, t.id) ELSE Absent]
    /\ fresh = [t \in Tasks |-> {}]
    /\ data = [t \in Tasks |-> {}]
    /\ consumed = [s \in Supervisors |-> IF s \in S THEN 1 ELSE 0]
    /\ reconcile_request = [s \in Supervisors |-> IF s \in S THEN {FirstRequest} ELSE {}]
    /\ yielded = [s \in Supervisors |->
                     IF s \in S THEN <<[event |-> "Apply", object |-> 1]>> ELSE <<>>]
    /\ delivered = [s \in Supervisors |-> IF s \in S THEN <<FirstRequest>> ELSE <<>>]
    /\ blocker = [t \in Tasks |-> NoTask]
    /\ snap = [id \in OperatorIds |-> {}]
    /\ returned = [t \in Callers |-> "none"]
    /\ unload_result = [id \in OperatorIds |-> "none"]
    /\ channels = <<>>
    /\ rx = [t \in Tasks |-> NoReceiver]
    /\ ret = NoRet
    /\ taken = [s \in Supervisors |-> <<>>]
    /\ requested = [id \in OperatorIds |-> {}]
    /\ components = components_metadata
    /\ ms = 0
    /\ stagger_until = StaggerUntil(0)
    /\ began = [id \in OperatorIds |-> {}]

\* The host of components_metadata: its operator is reconciling for its
\* watch on Ring.
GuestInit ==
    InReconcile({s \in Supervisors : s.kind = "Ring" /\ Started(s.id)})

\* No time passes: the guest, the tasks of its requests, and the return of
\* call_reconcile.
GuestNext ==
    \/ \E t \in Tasks : send_request(t)
    \/ \E c \in 1..MaxRequests : send_request_task(c)
    \/ \E t \in Tasks, h \in Handles : get(t, h)
    \/ \E t \in Tasks : get_await(t)
    \/ \E t \in Tasks, h \in Handles : drop(t, h)
    \/ \E t \in Callers : with_operator_f(t)

GuestSpec == GuestInit /\ [][GuestNext]_vars

\* The same host with time passing and the reaper running.
ServingNext ==
    \/ \E t \in Tasks : send_request(t)
    \/ \E c \in 1..MaxRequests : send_request_task(c)
    \/ \E t \in Tasks, h \in Handles : get(t, h)
    \/ \E t \in Tasks : get_await(t)
    \/ \E t \in Tasks, h \in Handles : drop(t, h)
    \/ \E t \in Callers : with_operator_f(t)
    \/ idle_check_loop_collect
    \/ idle_check_loop_unload
    \/ unload_component_serialize
    \/ unload_component_create_dir
    \/ unload_component_write
    \/ Tick

ServingSpec == GuestInit /\ [][ServingNext]_vars

\* A host with every operator of OperatorIds, each reconciling for its
\* watch on Ring; no time passes.
TwoGuestsInit == InReconcile({s \in Supervisors : s.kind = "Ring"})

TwoGuestsSpec == TwoGuestsInit /\ [][GuestNext]_vars

(***************************************************************************)
(* The cold start of a host with two operators, in the first second of its *)
(* life, with the timer that ends the stagger sleeps: run_components, and  *)
(* the supervisors of the operators already started.                       *)
(***************************************************************************)
TwoComponents == <<"t1", "t2">>

ColdStartInit == Starting(TwoComponents)

ColdStartNext ==
    \/ run_components_stagger
    \/ run_components_load
    \/ \E t \in Callers : with_operator_f(t)
    \/ \E s \in Supervisors : watch_and_reconcile_start(s)
    \/ \E s \in Supervisors : watch_and_reconcile_next(s)
    \/ TimerTick

ColdStartSpec == ColdStartInit /\ [][ColdStartNext]_vars

(***************************************************************************)
(* A reload after a swap cycle: the operators of components_metadata have  *)
(* reconciled once, with the instance of the cold start, been idle and     *)
(* been swapped out by the reaper; the supervisor of each has now taken a  *)
(* second event and its with_operator has removed the Unloaded slot.  The  *)
(* requests the swapped-out instance sent are there in whatever state they *)
(* were left: the task still running, the result sent, the send failed.    *)
(***************************************************************************)
\* The first sweep of the reaper that finds idle an operator last touched
\* at instant 0.
FirstIdleSweep == (IDLE_THRESHOLD \div ReaperPeriod + 1) * ReaperPeriod

\* The second request of a supervisor.
SecondRequest == ReconcileRequest(EventType("Apply"), 2)

\* A channel the instance inst made for a request, as its spawned task and
\* the instance may have left it.
LeftChannels(inst) ==
    LET ends(request) ==
            {[state |-> "running", reply |-> NoReply, value |-> {}]}
            \cup {[state |-> "sent", reply |-> reply,
                   value |-> {execute_request(request, reply)}] : reply \in Reached(request)}
            \cup {[state |-> "receiver dropped", reply |-> reply, value |-> {}] :
                      reply \in Reached(request)}
    IN UNION {{[by |-> inst, handle |-> h, request |-> request] @@ e : e \in ends(request)} :
                 request \in Requests, h \in Handles}

ReloadInit ==
    LET S == {s \in Supervisors : s.kind = "Ring" /\ Started(s.id)}
    IN /\ now = FirstIdleSweep
       /\ operators = [id \in OperatorIds |-> Absent]
       /\ snap \in [OperatorIds -> {{}} \cup {{b} : b \in Blobs}]
       /\ \A id \in OperatorIds : snap[id] # {} <=> Started(id)
       /\ files = [path \in Paths |->
                     snap[CHOOSE id \in OperatorIds : StatePath(id) = path]]
       /\ next_inst = Cardinality(OperatorIds) + 1
       /\ pc = [t \in Tasks |->
                   IF t = SCHED THEN "parked"
                   ELSE IF t = REAPER THEN "sleeping"
                   ELSE IF t \in S THEN "wo_load"
                   ELSE "unspawned"]
       /\ wake_at = now + ReaperPeriod
       /\ sched_i = Len(components_metadata) + 1
       /\ idle_ids = {}
       /\ target = [t \in Tasks |-> IF t \in S THEN t.id ELSE "-"]
       /\ op_state = [t \in Tasks |->
                         IF t \in S THEN Unloaded(StatePath(t.id), t.id) ELSE Absent]
       /\ fresh = [t \in Tasks |-> {}]
       /\ data = [t \in Tasks |-> {}]
       /\ consumed = [s \in Supervisors |-> IF s \in S THEN 2 ELSE 0]
       /\ reconcile_request = [s \in Supervisors |-> IF s \in S THEN {SecondRequest} ELSE {}]
       /\ yielded = [s \in Supervisors |->
                        IF s \in S THEN <<[event |-> "Apply", object |-> 1],
                                          [event |-> "Apply", object |-> 2]>>
                        ELSE <<>>]
       /\ delivered = [s \in Supervisors |-> IF s \in S THEN <<FirstRequest>> ELSE <<>>]
       /\ blocker = [t \in Tasks |-> NoTask]
       /\ returned = [t \in Callers |-> IF t \in S THEN "ok" ELSE "none"]
       /\ unload_result = [id \in OperatorIds |-> IF Started(id) THEN "ok" ELSE "none"]
       /\ \E id \in {x \in OperatorIds : Started(x)} :
             channels \in {<<>>} \cup {<<ch>> : ch \in LeftChannels(ColdInstance(id).inst)}
       /\ rx = [t \in Tasks |-> NoReceiver]
       /\ ret = NoRet
       /\ taken = [s \in Supervisors |-> <<>>]
       /\ requested = [id \in OperatorIds |-> {}]
       /\ components = components_metadata
       /\ ms = 0
       /\ stagger_until = StaggerUntil(0)
       /\ began = [id \in OperatorIds |-> {}]

\* The reload, the guest of the new instance, the tasks of the requests.
ReloadNext ==
    \/ \E t \in Callers : with_operator_load(t)
    \/ \E t \in Callers : with_operator_read(t)
    \/ \E t \in Callers : with_operator_deserialize(t)
    \/ \E t \in Tasks : send_request(t)
    \/ \E c \in 1..MaxRequests : send_request_task(c)
    \/ \E t \in Tasks, h \in Handles : get(t, h)
    \/ \E t \in Tasks : get_await(t)
    \/ \E t \in Tasks, h \in Handles : drop(t, h)
    \/ \E t \in Callers : with_operator_f(t)

ReloadSpec == ReloadInit /\ [][ReloadNext]_vars

(***************************************************************************)
(* The supervisors on their own: the host of components_metadata after a   *)
(* cold start in which each operator asked for a watch on every kind of    *)
(* WatchKinds, every supervisor at watcher.next().  No time passes.  The   *)
(* item each turn of a loop takes is noted.                                *)
(***************************************************************************)
WatchInit ==
    /\ now = 0
    /\ operators = [id \in OperatorIds |->
                       IF Started(id) THEN Loaded(ColdInstance(id), 0, id) ELSE Absent]
    /\ files = [p \in Paths |-> {}]
    /\ next_inst = Cardinality(OperatorIds) + 1
    /\ pc = [t \in Tasks |->
                IF t = SCHED THEN "parked"
                ELSE IF t = REAPER THEN "sleeping"
                ELSE IF Started(t.id) THEN "watching"
                ELSE "unspawned"]
    /\ wake_at = ReaperPeriod
    /\ sched_i = Len(components_metadata) + 1
    /\ idle_ids = {}
    /\ target = [t \in Tasks |-> "-"]
    /\ op_state = [t \in Tasks |-> Absent]
    /\ fresh = [t \in Tasks |-> {}]
    /\ data = [t \in Tasks |-> {}]
    /\ consumed = [s \in Supervisors |-> 0]
    /\ reconcile_request = [s \in Supervisors |-> {}]
    /\ yielded = [s \in Supervisors |-> <<>>]
    /\ delivered = [s \in Supervisors |-> <<>>]
    /\ blocker = [t \in Tasks |-> NoTask]
    /\ snap = [id \in OperatorIds |-> {}]
    /\ returned = [t \in Callers |-> "none"]
    /\ unload_result = [id \in OperatorIds |-> "none"]
    /\ channels = <<>>
    /\ rx = [t \in Tasks |-> NoReceiver]
    /\ ret = NoRet
    /\ taken = [s \in Supervisors |-> <<>>]
    /\ requested = [id \in OperatorIds |-> {}]
    /\ components = components_metadata
    /\ ms = 0
    /\ stagger_until = StaggerUntil(0)
    /\ began = [id \in OperatorIds |-> {}]

WatchNext ==
    \/ \E s \in Supervisors : watch_and_reconcile_noted(s)
    \/ \E t \in Callers : with_operator_f(t)

WatchSpec == WatchInit /\ [][WatchNext]_vars

(***************************************************************************)
(* What the properties below speak about.                                  *)
(***************************************************************************)
\* A guest entry point is executing on behalf of task t: call_deserialize,
\* f (call_get_watch_requests or call_reconcile) or call_serialize.
InGuestCall(t) == pc[t] \in {"wo_deser", "wo_f", "un_ser"}

\* The tasks with a guest call in flight on operator id.
InFlight(id) == {t \in Tasks : target[t] = id /\ InGuestCall(t)}

\* Task t is inside with_operator or unload_component.
InCall(t) == pc[t] \in {"wo_load", "wo_read", "wo_deser", "wo_f",
                        "un_ser", "un_mkdir", "un_write"}

\* Some with_operator or unload_component call on id has not returned yet.
Busy(id) == \E t \in Tasks : target[t] = id /\ InCall(t)

\* run_components has inserted id.
Inserted(id) ==
    \E k \in 1..Len(components_metadata) :
        components_metadata[k] = id /\ (sched_i > k \/ target[SCHED] = id)

(***************************************************************************)
(* C1  Single-in-flight: in every reachable state and for every operator   *)
(* id, at most one guest entry point call (get_watch_requests, reconcile,  *)
(* serialize, deserialize) is executing, whatever the interleaving of the  *)
(* with_operator callers and the reaper's unload_component.                *)
(***************************************************************************)
C1_SingleInFlight == \A id \in OperatorIds : Cardinality(InFlight(id)) <= 1

\* C1: a guest call is in flight on an operator while another caller has
\* come for the same operator and found its slot taken.
C1_Witness ==
    \E t1 \in Tasks, t2 \in Tasks :
        /\ t1 # t2
        /\ InGuestCall(t1)
        /\ blocker[t2] = t1
        /\ target[t2] = target[t1]

(***************************************************************************)
(* C2  An operator inserted at cold-start is never lost from the map:      *)
(* once every with_operator and unload_component call on its id has        *)
(* returned, the map holds a slot for it, Loaded or Unloaded.              *)
(***************************************************************************)
C2_TenantNeverLost ==
    \A id \in OperatorIds :
        (Inserted(id) /\ ~Busy(id)) => operators[id].kind \in {"Loaded", "Unloaded"}

(***************************************************************************)
(* C3  A with_operator call that arrives while another with_operator call  *)
(* holds the slot of the same id waits for the slot: it does not fail and  *)
(* its task is not aborted.                                                *)
(***************************************************************************)
C3_SecondCallerWaits ==
    \A t \in Callers : pc[t] = "panicked" => blocker[t] \notin Callers

(***************************************************************************)
(* C4  A watch event dispatched through with_operator while the reaper's   *)
(* unload_component holds the slot (serialize or the file write pending)   *)
(* is not fatal to the supervisor.                                         *)
(***************************************************************************)
C4_DispatchDuringSwapOut ==
    \A s \in Supervisors : pc[s] = "panicked" => blocker[s] # REAPER

\* Task t is in the reload branch of with_operator, before f.
Reloading(t) == pc[t] \in {"wo_load", "wo_read", "wo_deser"}

(***************************************************************************)
(* C5  Reload failure leaves the operator Unloaded: when with_operator     *)
(* returns from its reload branch without f having been invoked (load,     *)
(* the read of the state file or call_deserialize failed), the Unloaded    *)
(* slot it took, same state_path and metadata, is back in the map.         *)
(***************************************************************************)
C5_ReloadFailureLeavesUnloaded ==
    [][\A t \in Callers :
          (Reloading(t) /\ pc'[t] \notin {"wo_load", "wo_read", "wo_deser", "wo_f"})
              => operators'[target[t]] = op_state[t]]_vars

\* The reaper is inside unload_component with a Loaded slot taken.
Unloading == pc[REAPER] \in {"un_ser", "un_mkdir", "un_write"}

(***************************************************************************)
(* C6  Swap-out failure leaves the operator Loaded: when unload_component  *)
(* returns after having taken a Loaded slot, the map holds either the new  *)
(* Unloaded slot (success) or the Loaded slot it took, same instance and   *)
(* store (call_serialize, create_dir_all or the write failed).             *)
(***************************************************************************)
C6_SwapOutFailureLeavesLoaded ==
    [][(Unloading /\ pc'[REAPER] \in {"sleeping", "sweep"})
          => operators'[target[REAPER]] \in
                {op_state[REAPER],
                 Unloaded(StatePath(target[REAPER]), op_state[REAPER].metadata)}]_vars

\* A reconcile is in flight on id.
ReconcileInFlight(id) ==
    \E s \in Supervisors : target[s] = id /\ pc[s] = "wo_f"

\* This step is the reaper calling unload_component(id).
CallsUnload(id) ==
    pc[REAPER] = "sweep" /\ id \in idle_ids /\ id \notin idle_ids'

(***************************************************************************)
(* C7, as claimed  unload_component issued for an operator while a         *)
(* reconcile for it is in flight waits until the reconcile has returned    *)
(* and only then serializes and swaps out: the call does not return while  *)
(* the reconcile is still in flight.                                       *)
(***************************************************************************)
C7_SwapOutWaitsForReconcile ==
    [][\A id \in OperatorIds :
          (CallsUnload(id) /\ ReconcileInFlight(id))
              => pc'[REAPER] \notin {"sleeping", "sweep"}]_vars

(***************************************************************************)
(* C7, as the code has it  unload_component issued for an operator while   *)
(* a reconcile for it is in flight does not interrupt the reconcile, and   *)
(* neither waits nor swaps out: it finds no slot and returns at once,      *)
(* without a serialize, a file write or a change to the map.               *)
(***************************************************************************)
C7_SwapOutSkipsBusyOperator ==
    [][\A id \in OperatorIds :
          (CallsUnload(id) /\ ReconcileInFlight(id))
              => /\ pc'[REAPER] \in {"sleeping", "sweep"}
                 /\ operators' = operators
                 /\ files' = files
                 /\ op_state' = op_state
                 /\ \A s \in Supervisors : pc'[s] = pc[s]]_vars

\* C7: unload_component has come for an operator whose reconcile is still
\* in flight, and has returned.
C7_Witness ==
    /\ blocker[REAPER] \in Supervisors
    /\ pc[blocker[REAPER]] = "wo_f"
    /\ target[blocker[REAPER]] = target[REAPER]
    /\ pc[REAPER] \in {"sleeping", "sweep"}

\* The instance the f of task t runs on.
RunningInstance(t) ==
    IF op_state[t].kind = "Unloaded"
    THEN CHOOSE i \in fresh[t] : TRUE
    ELSE op_state[t].operator

(***************************************************************************)
(* C8  Whenever f (a reconcile, or any closure given to with_operator)     *)
(* runs on an instance built by a reload, call_deserialize has been        *)
(* invoked on that instance before, and the instance was built from the    *)
(* metadata of the operator it serves.                                     *)
(***************************************************************************)
C8_DeserializeBeforeF ==
    \A t \in Callers :
        (pc[t] = "wo_f" /\ RunningInstance(t).site = "reload")
            => /\ RunningInstance(t).restored # {}
               /\ RunningInstance(t).metadata = target[t]

\* C8: f runs on an instance this very with_operator call has reloaded.
C8_Witness ==
    \E s \in Supervisors :
        /\ pc[s] = "wo_f"
        /\ op_state[s].kind = "Unloaded"
        /\ RunningInstance(s).restored # {}

\* The Unloaded slots of id: in the map, or taken by a reload in progress.
UnloadedSlots(id) ==
    {st \in {operators[id]} \cup {op_state[t] : t \in {x \in Callers : target[x] = id}} :
        st.kind = "Unloaded"}

(***************************************************************************)
(* C9  Snapshot round trip: whenever an operator's slot is Unloaded, the   *)
(* file at its state_path holds exactly the bytes call_serialize returned  *)
(* in the unload_component that made the slot, and a reload passes exactly *)
(* those bytes to call_deserialize.                                        *)
(***************************************************************************)
C9_SnapshotRoundTrip ==
    /\ \A id \in OperatorIds : \A st \in UnloadedSlots(id) :
          snap[id] # {} /\ files[st.state_path] = snap[id]
    /\ \A t \in Callers : pc[t] = "wo_deser" => data[t] = snap[target[t]]
    /\ \A t \in Callers :
          (pc[t] = "wo_f" /\ op_state[t].kind = "Unloaded")
              => RunningInstance(t).restored = snap[target[t]]

\* C9: a reload has read the state file and call_deserialize is running on
\* the bytes.
C9_Witness ==
    \E t \in Callers : pc[t] = "wo_deser" /\ data[t] # {} /\ data[t] = files[StatePath(target[t])]

\* The requests the yielded events of s call for.
Expected(s) ==
    [k \in 1..Len(yielded[s]) |->
        ReconcileRequest(EventType(yielded[s][k].event), yielded[s][k].object)]

(***************************************************************************)
(* C10  Event ordering: for each supervisor, the requests call_reconcile   *)
(* was invoked with are, in order and without loss or duplication, the     *)
(* mapped (Apply, InitApply, Delete) events its watch stream has yielded;  *)
(* only the request of the dispatch in progress may still be missing.      *)
(***************************************************************************)
C10_EventOrdering ==
    \A s \in Supervisors :
        \/ delivered[s] = Expected(s)
        \/ /\ Reloading(s)
           /\ delivered[s] = SubSeq(Expected(s), 1, Len(Expected(s)) - 1)

(***************************************************************************)
(* C11  When a supervisor's watch stream ends (watcher.next() yields None) *)
(* the supervisor does not terminate: a supervisor that is in its watch    *)
(* loop stays a live task, in the loop or in a dispatch, whatever the      *)
(* stream yields.                                                          *)
(***************************************************************************)
C11_SupervisorRestartsWatch ==
    [][\A s \in Supervisors : pc[s] = "watching" => pc'[s] # "ended"]_vars

\* This step is the return of with_operator to task t after f has run.
ReturnsFromF(t) == pc[t] = "wo_f" /\ pc'[t] # "wo_f"

(***************************************************************************)
(* C12  Guest trap recovery: when the f given to with_operator returns an  *)
(* error, the slot is reinserted as Loaded with the instance f ran on,     *)
(* both when the operator was Loaded already and when it was reloaded for  *)
(* this call; and a call that finds a Loaded slot goes on to run its f.    *)
(***************************************************************************)
C12_GuestTrapRecovery ==
    [][/\ \A t \in Callers :
            (ReturnsFromF(t) /\ returned'[t] = "f_err")
                => /\ operators'[target[t]].kind = "Loaded"
                   /\ operators'[target[t]].operator = RunningInstance(t)
                   /\ operators'[target[t]].metadata = target[t]
       /\ \A s \in Supervisors :
            (/\ pc[s] = "watching"
             /\ pc'[s] \notin {"watching", "ended"}
             /\ operators[s.id].kind = "Loaded")
                => pc'[s] = "wo_f" /\ Len(delivered'[s]) = Len(delivered[s]) + 1]_vars

\* C12: a reconcile failed on an operator reloaded for that very call, and
\* the supervisor's next reconcile is running on the reloaded instance.
C12_Witness ==
    \E s \in Supervisors :
        /\ returned[s] = "f_err"
        /\ pc[s] = "wo_f"
        /\ op_state[s].kind = "Loaded"
        /\ op_state[s].operator.site = "reload"
        /\ Len(delivered[s]) = 2

\* This step is the return of with_operator to supervisor s with an Err.
ReturnsErr(s) ==
    /\ pc[s] \in {"wo_load", "wo_read", "wo_deser", "wo_f"}
    /\ pc'[s] \notin {"wo_load", "wo_read", "wo_deser", "wo_f"}
    /\ returned'[s] \in {"f_err", "reload_err"}

(***************************************************************************)
(* C13  A failed reconcile dispatch does not stop the supervisor and is    *)
(* not retried: when with_operator returns an error for an event, the      *)
(* supervisor is back at its stream with the request dropped and no new    *)
(* call_reconcile made; and no event is ever dispatched a second time:     *)
(* the requests delivered name strictly later items of the stream.         *)
(***************************************************************************)
C13_FailedDispatchNotRetried ==
    /\ [][\A s \in Supervisors :
            ReturnsErr(s) => /\ pc'[s] = "watching"
                             /\ reconcile_request'[s] = {}
                             /\ delivered'[s] = delivered[s]]_vars
    /\ [](\A s \in Supervisors :
            /\ \A i, j \in 1..Len(delivered[s]) :
                  i < j => delivered[s][i].name < delivered[s][j].name
            /\ \A i \in 1..Len(delivered[s]) : delivered[s][i].name <= consumed[s])

\* C13: a reconcile has failed, and the supervisor is dispatching the next
\* event of its stream.
C13_Witness ==
    \E s \in Supervisors :
        /\ returned[s] \in {"f_err", "reload_err"}
        /\ pc[s] = "wo_f"
        /\ consumed[s] = 2
        /\ reconcile_request[s] = {delivered[s][Len(delivered[s])]}
        /\ delivered[s][Len(delivered[s])].name = 2

(***************************************************************************)
(* C14  An operator's load failure at cold-start is fatal only for that    *)
(* operator: run_components does not end there, it goes on to the next     *)
(* metadata of the list and to the spawn of the reaper.                    *)
(***************************************************************************)
C14_ColdStartLoadFailureIsolated ==
    [][pc[SCHED] = "load" => pc'[SCHED] # "failed"]_vars

\* The guest entry point the closure of task t calls: run_components passes
\* call_get_watch_requests, dispatch_reconcile passes call_reconcile.
EntryPoint(t) == IF t = SCHED THEN "call_get_watch_requests" ELSE "call_reconcile"

\* The entry points with_operator has invoked on operator id so far.
Invoked(id) ==
    {EntryPoint(t) : t \in {x \in Callers : /\ target[x] = id
                                            /\ \/ pc[x] = "wo_f"
                                               \/ returned[x] \in {"ok", "f_err"}}}

(***************************************************************************)
(* C15  Cold-start order: call_start is invoked through with_operator      *)
(* before call_get_watch_requests and before any call_reconcile:           *)
(* whenever one of these two runs for an operator, call_start has been     *)
(* invoked through with_operator for it.                                   *)
(***************************************************************************)
C15_StartBeforeWatchRequests ==
    \A t \in Callers :
        (pc[t] = "wo_f" /\ EntryPoint(t) # "call_start")
            => "call_start" \in Invoked(target[t]) \ {EntryPoint(t)}

\* The Loaded state of id, in the map or taken out of it by a call in
\* progress (none while the operator is Unloaded or its slot is lost).
LoadedStates(id) ==
    {st \in {operators[id]} \cup {op_state[t] : t \in {x \in Tasks : target[x] = id}} :
        st.kind = "Loaded"}

(***************************************************************************)
(* C16  Monotone activity: for every operator, across any sequence of      *)
(* with_operator calls while it stays Loaded, the slot's last_active       *)
(* never decreases.                                                        *)
(***************************************************************************)
C16_LastActiveMonotone ==
    [][\A id \in OperatorIds :
          \A before \in LoadedStates(id) : \A after \in LoadedStates(id)' :
              after.last_active >= before.last_active]_vars

\* C16: an operator that has stayed Loaded since cold-start is in a later
\* with_operator call of a supervisor, and the call has moved last_active.
C16_Witness ==
    \E s \in Supervisors :
        /\ pc[s] = "wo_f"
        /\ returned[s] # "none"
        /\ op_state[s].kind = "Loaded"
        /\ op_state[s].operator.site = "cold"
        /\ op_state[s].last_active >= ReaperPeriod

\* This step is the reaper waking up and collecting idle_ids.
Collects ==
    /\ pc[REAPER] = "sleeping"
    /\ pc'[REAPER] = "sweep" \/ wake_at' # wake_at

(***************************************************************************)
(* C17  Strict idle threshold: the reaper selects a Loaded operator for    *)
(* unload only if the time elapsed since its last_active is strictly       *)
(* greater than IDLE_THRESHOLD; an operator whose elapsed idle time equals *)
(* IDLE_THRESHOLD exactly is not selected in that sweep.                   *)
(***************************************************************************)
C17_StrictIdleThreshold ==
    [][Collects =>
          \A id \in OperatorIds :
              /\ id \in idle_ids' =>
                    /\ operators[id].kind = "Loaded"
                    /\ now - operators[id].last_active > IDLE_THRESHOLD
              /\ (/\ operators[id].kind = "Loaded"
                  /\ now - operators[id].last_active = IDLE_THRESHOLD)
                    => id \notin idle_ids']_vars

\* C17: the reaper has just made a sweep (its next wake-up is a full period
\* away, and later than the first one it was spawned with, since a
\* supervisor spawned with it has touched the operator since) in which an
\* operator was idle for IDLE_THRESHOLD exactly, and the operator is Loaded.
C17_Witness ==
    \E s \in Supervisors :
        /\ returned[s] \in {"ok", "f_err"}
        /\ operators[s.id].kind = "Loaded"
        /\ operators[s.id].operator.site = "cold"
        /\ now - operators[s.id].last_active = IDLE_THRESHOLD
        /\ pc[REAPER] = "sleeping"
        /\ wake_at = now + ReaperPeriod

\* The last instant of the model's clock.
ClockEnd == MaxTicks * ReaperPeriod

\* Operator id sits Loaded in the map and either awaits its unload_component
\* call in the sweep under way, or has been idle for more than the threshold
\* with the reaper asleep (and due to wake up before the model's clock ends).
SitsIdle(id) ==
    /\ operators[id].kind = "Loaded"
    /\ \/ id \in idle_ids
       \/ /\ now - operators[id].last_active > IDLE_THRESHOLD
          /\ pc[REAPER] = "sleeping"
          /\ wake_at <= ClockEnd

\* The slot of id is gone: a call_serialize, create_dir_all or write has
\* failed on it.
SlotDropped(id) == operators[id] = Absent /\ Holders(id) = {}

(***************************************************************************)
(* C18  Idle operators are eventually unloaded: a Loaded operator that     *)
(* receives no with_operator call and whose serialize and file write       *)
(* succeed eventually becomes Unloaded, and its state file then exists.    *)
(***************************************************************************)
C18_IdleEventuallyUnloaded ==
    \A id \in OperatorIds :
        SitsIdle(id) ~>
            \/ operators[id].kind = "Unloaded" /\ files[operators[id].state_path] # {}
            \/ SlotDropped(id)

\* C18: the reaper has unloaded an operator idle for more than the
\* threshold, serialize and write succeeding, and its state file is on disk.
C18_Witness ==
    \E id \in OperatorIds :
        /\ unload_result[id] = "ok"
        /\ operators[id].kind = "Unloaded"
        /\ files[operators[id].state_path] = snap[id]
        /\ snap[id] # {}
        /\ now > IDLE_THRESHOLD

\* This step is an unload_component call returning Err to idle_check_loop.
UnloadFails ==
    /\ Unloading
    /\ pc'[REAPER] \notin {"un_ser", "un_mkdir", "un_write"}
    /\ unload_result'[target[REAPER]] = "err"

\* This step is the reaper moving on from the head of its for loop.
LeavesSweepHead ==
    pc[REAPER] = "sweep" /\ <<pc[REAPER], idle_ids>>' # <<pc[REAPER], idle_ids>>

(***************************************************************************)
(* C19  An unload_component error does not stop the reaper: when the call  *)
(* fails for one idle operator the reaper is back in its loops with the    *)
(* rest of idle_ids still to do (or asleep until the next sweep, when      *)
(* none is left), the only thing it does with ids left is to call          *)
(* unload_component on one of them, and its task never ends.               *)
(***************************************************************************)
C19_ReaperSurvivesUnloadError ==
    /\ [][UnloadFails =>
             /\ idle_ids' = idle_ids
             /\ pc'[REAPER] = IF idle_ids = {} THEN "sleeping" ELSE "sweep"
             /\ idle_ids = {} => wake_at' = now + ReaperPeriod]_vars
    /\ [][LeavesSweepHead =>
             \E id \in idle_ids : target'[REAPER] = id /\ idle_ids' = idle_ids \ {id}]_vars
    /\ [](pc[REAPER] \in {"sleeping", "sweep", "un_ser", "un_mkdir", "un_write"})

\* C19: unload_component has failed for one operator and the reaper is in
\* the unload_component call of another.
C19_Witness ==
    \E a \in OperatorIds, b \in OperatorIds :
        /\ a # b
        /\ unload_result[a] = "err"
        /\ target[REAPER] = b
        /\ pc[REAPER] = "un_ser"

(***************************************************************************)
(* C20  unload_component on an operator that is already Unloaded is a      *)
(* no-op: the slot is put back unchanged (same state_path and metadata),   *)
(* no guest entry point is called and the state file is not written.       *)
(***************************************************************************)
C20_UnloadOfUnloadedIsNoOp ==
    [][\A id \in OperatorIds :
          (CallsUnload(id) /\ operators[id].kind = "Unloaded")
              => /\ operators' = operators
                 /\ files' = files
                 /\ snap' = snap
                 /\ op_state' = op_state
                 /\ data' = data
                 /\ pc'[REAPER] \in {"sleeping", "sweep"}]_vars

\* C20: unload_component has been called on an Unloaded operator and has
\* put the slot back.
C20_Witness ==
    \E id \in OperatorIds :
        /\ unload_result[id] = "put_back"
        /\ operators[id] = Unloaded(StatePath(id), id)
        /\ files[StatePath(id)] = snap[id]
        /\ snap[id] # {}

\* The handles of instance i whose response has not been delivered to the
\* guest: no get has taken the receiver of the entry.
Outstanding(i) == {h \in Handles : i.resources[h] # NoEntry /\ i.resources[h].gets = 0}

\* unload_component(id) gets to call_serialize in this step.
SerializeStarts(id) ==
    /\ CallsUnload(id)
    /\ pc'[REAPER] = "un_ser"

(***************************************************************************)
(* C21  Swap-out never serializes an operator with an outstanding request: *)
(* when unload_component gets to call_serialize, the table of the          *)
(* operator's instance holds no entry of a send_request whose response the *)
(* guest has not been given (unload_component would have waited for the    *)
(* request to complete and the response to be delivered).                  *)
(***************************************************************************)
C21_SwapOutWaitsForRequests ==
    [][\A id \in OperatorIds :
          SerializeStarts(id) => Outstanding(operators[id].operator) = {}]_vars

\* The entry of its table that the get task t's guest is suspended in took
\* the receiver from.
AwaitedEntries(t) ==
    {h \in Handles : /\ InstanceOf(t).resources[h] # NoEntry
                     /\ InstanceOf(t).resources[h].req = rx[t]}

(***************************************************************************)
(* C22  Each FutureResponse resolves exactly once: the first get on an     *)
(* entry returns the result of the request the entry was pushed for, a     *)
(* response or an error string; every later get on the same entry returns  *)
(* an error string, never a response, and returns without waiting (only a  *)
(* first get is ever suspended on its receiver).                           *)
(***************************************************************************)
C22_ResolvesExactlyOnce ==
    \A t \in Tasks :
        /\ (ret.fn = "get" /\ ret.nth = 1) => ret.result \in channels[ret.req].value
        /\ (ret.fn = "get" /\ ret.nth > 1) => ~ret.result.ok
        /\ rx[t] # NoReceiver
              => \E h \in AwaitedEntries(t) : InstanceOf(t).resources[h].gets = 1

\* C22: a second get on the entry of a request that was answered with a
\* response has returned, with an error string.
C22_Witness ==
    /\ ret.fn = "get"
    /\ ret.nth = 2
    /\ ret.result = Err("channel closed")
    /\ \E r \in channels[ret.req].value : r.ok

\* The entries, over all existing tables, pushed for request req: the
\* instance and the handle of each.
EntriesOf(req) ==
    {p \in {i.inst : i \in Instances} \X Handles :
        \E i \in Instances : /\ i.inst = p[1]
                             /\ i.resources[p[2]] # NoEntry
                             /\ i.resources[p[2]].req = req}

\* The last call a guest made was a get or a drop on the entry of a request.
Retrieved == ret.fn = "get" /\ ret.req # 0
Dropped == ret.fn = "drop" /\ ret.req # 0

(***************************************************************************)
(* C23, as claimed  An entry is added to the table by send_request and is  *)
(* removed when the guest retrieves the response with get or calls drop:   *)
(* once either has returned no table holds an entry for the request.       *)
(***************************************************************************)
C23_EntryRemovedOnGetOrDrop ==
    (Retrieved \/ Dropped) => EntriesOf(ret.req) = {}

(***************************************************************************)
(* C23, amended  An entry is added to the table by send_request and is     *)
(* removed by drop only.  get takes the receiver out of the entry and      *)
(* leaves the entry in the table with a closed receiver: once get has      *)
(* returned, and for as long as the instance exists and the guest calls    *)
(* neither get nor drop again, the handle still names that entry.  Once    *)
(* drop has returned no table holds an entry for the request.              *)
(***************************************************************************)
C23_EntryRemovedOnDropOnly ==
    /\ Dropped => EntriesOf(ret.req) = {}
    /\ Retrieved =>
          \A i \in Instances :
              i.inst = ret.inst =>
                  i.resources[ret.handle] =
                      FutureResponse(ClosedReceiver, ret.req, ret.nth)
    /\ \A i \in Instances, h \in Handles :
          i.resources[h] # NoEntry =>
              /\ i.resources[h].req \in 1..Len(channels)
              /\ i.resources[h].gets = 0 <=> i.resources[h].receiver = i.resources[h].req

\* C23: get has returned the response of a request and the entry is still
\* in the table of the instance.
C23_Witness ==
    /\ Retrieved
    /\ ret.nth = 1
    /\ ret.result.ok
    /\ EntriesOf(ret.req) = {<<ret.inst, ret.handle>>}

\* A send_request call returns in this step: a channel has been made.
SendRequestReturns == Len(channels') = Len(channels) + 1

\* The handles of instance i whose request is still being executed.
Unresolved(i) ==
    {h \in Handles : /\ i.resources[h] # NoEntry
                     /\ i.resources[h].receiver \in 1..Len(channels)
                     /\ channels[i.resources[h].receiver].state = "running"}

(***************************************************************************)
(* C24  send_request does not block: when it returns, the task of the      *)
(* request is still running (the round trip has not completed), and the    *)
(* handle returned is fresh: it named no entry before, and every other     *)
(* entry of the table is as it was.  Whatever the order in which the       *)
(* requests complete, the first get on a handle returns what               *)
(* execute_request gave for the request that handle was returned for.      *)
(***************************************************************************)
C24_SendRequestNonBlocking ==
    /\ [][SendRequestReturns =>
            /\ channels'[Len(channels')].state = "running"
            /\ \E t \in Tasks :
                 /\ GuestRuns(t)
                 /\ \E h \in Handles :
                      /\ InstanceOf(t).resources[h] = NoEntry
                      /\ InstanceOf(t)'.resources[h] =
                            FutureResponse(Len(channels'), Len(channels'), 0)
                      /\ \A k \in Handles \ {h} :
                            InstanceOf(t)'.resources[k] = InstanceOf(t).resources[k]]_vars
    /\ [](ret.fn = "get" /\ ret.nth = 1
            => ret.result = execute_request(channels[ret.req].request,
                                            channels[ret.req].reply))

\* C24: a guest held two unresolved handles at once; the request sent
\* second completed first and get on its handle has returned its response,
\* while the request sent first is still running.
C24_Witness ==
    /\ ret.fn = "get"
    /\ ret.req = 2
    /\ ret.nth = 1
    /\ ret.result.ok
    /\ \E i \in Instances :
         /\ i.inst = ret.inst
         /\ \E h \in Unresolved(i) : i.resources[h].req = 1

\* The last call was a get with a handle under which another instance holds
\* an entry: a handle another operator's send_request returned.
ForeignHandle == ret.fn = "get" /\ ret.others # {}

(***************************************************************************)
(* C25, as claimed  Handle isolation: get called in one operator with a    *)
(* handle that another operator's send_request returned gives the          *)
(* unknown-handle error, whatever entries the calling operator holds.      *)
(***************************************************************************)
C25_ForeignHandleIsUnknown ==
    ForeignHandle => ret.result = Err("unknown handle")

(***************************************************************************)
(* C25, amended  Handle isolation: a handle is an index into the table of  *)
(* the calling instance.  get never returns the response of a request      *)
(* another operator sent: with a handle under which the caller holds no    *)
(* entry it gives the unknown-handle error, and with any other handle what *)
(* the caller's own entry resolves to, also when another operator holds an *)
(* entry under the same handle.                                            *)
(***************************************************************************)
C25_HandleIsolation ==
    ret.fn = "get" =>
        /\ ret.req = 0 <=> ret.result = Err("unknown handle")
        /\ ret.req # 0 => channels[ret.req].by = ret.inst
        /\ ret.result.ok => ret.result \in channels[ret.req].value

\* C25: get has returned the caller's own response for a handle under which
\* another operator holds an entry too.
C25_Witness ==
    /\ ForeignHandle
    /\ ret.result.ok
    /\ channels[ret.req].by = ret.inst
    /\ \E c \in 1..Len(channels) : channels[c].by \in ret.others

\* The last call was the get that resolved a request: the first on its entry.
Resolved == ret.fn = "get" /\ ret.nth = 1

\* The error strings of a request that did not get to the cluster or got no
\* answer, with what has to be wrong with the request for each.
RequestFailure(ch, e) ==
    \/ e = "Invalid URI" /\ ~UriFromStr(ch.request.uri).ok
    \/ e = "Invalid method" /\ ~MethodFromStr(ch.request.method).ok
    \/ e = "Failed to build request" /\ ~Build(ch.request).ok
    \/ e = "Failed to send request" /\ ch.reply = "NoConnection"

Takes(s) == taken'[s] # taken[s]

\* The item taken, and the name of its object.
TakenItem(s) == taken'[s][Len(taken'[s])]
TakenObject(s) == Len(taken'[s])

\* The step calls with_operator for s with the request of the item taken,
\* of event type event_type; when f starts in the same step, call_reconcile
\* is invoked with it.
Dispatches(s, event_type) ==
    /\ reconcile_request'[s] = {[event_type |-> event_type, name |-> TakenObject(s)]}
    /\ target'[s] = s.id
    /\ pc'[s] \in {"wo_f", "wo_load", "panicked"}
    /\ pc'[s] = "wo_f" =>
          delivered'[s] = Append(delivered[s],
                                 [event_type |-> event_type, name |-> TakenObject(s)])

\* The step builds no request and calls no with_operator: s is back at
\* watcher.next().
Skips(s) ==
    /\ pc'[s] = "watching"
    /\ UNCHANGED <<reconcile_request, delivered, operators, op_state, target>>

(***************************************************************************)
(* C27  Event mapping: for every item a supervisor takes from its stream,  *)
(* Apply(obj) and InitApply(obj) are dispatched as a ReconcileRequest of   *)
(* event type Added, Delete(obj) as one of event type Deleted, and Init    *)
(* and InitDone build no ReconcileRequest and call no with_operator.       *)
(***************************************************************************)
C27_EventMapping ==
    [][\A s \in Supervisors :
          Takes(s) =>
              /\ TakenItem(s) \in {"Apply", "InitApply"} => Dispatches(s, "Added")
              /\ TakenItem(s) = "Delete" => Dispatches(s, "Deleted")
              /\ TakenItem(s) \in {"Init", "InitDone"} => Skips(s)]_vars

\* C27: a stream gave Init, then a Delete, and call_reconcile was invoked
\* once, with event type Deleted, for the second item.
C27_Witness ==
    \E s \in Supervisors :
        /\ taken[s] = <<"Init", "Delete">>
        /\ delivered[s] = <<[event_type |-> "Deleted", name |-> 2]>>

\* with_operator was called for the k-th item of s's stream: call_reconcile
\* was invoked with its request, or the call is under way or ended in the
\* panic of with_operator's unwrap.
WasDispatched(s, k) ==
    \/ \E m \in 1..Len(delivered[s]) : delivered[s][m].name = k
    \/ /\ pc[s] \in {"wo_load", "wo_read", "wo_deser", "panicked"}
       /\ \E r \in reconcile_request[s] : r.name = k

(***************************************************************************)
(* C28  A watch stream error does not end the supervisor: when the stream  *)
(* yields Err, no reconcile is dispatched for that item and the supervisor *)
(* is back at watcher.next() on the same stream; every event the stream    *)
(* yields after an Err that the supervisor takes while it runs, an Apply,  *)
(* InitApply or Delete, is dispatched.                                     *)
(***************************************************************************)
C28_StreamErrorSurvived ==
    /\ [][\A s \in Supervisors : (Takes(s) /\ TakenItem(s) = "Err") => Skips(s)]_vars
    /\ [](\A s \in Supervisors :
            \A k \in 1..Len(taken[s]) :
                (/\ taken[s][k] \in Dispatched
                 /\ \E j \in 1..(k - 1) : taken[s][j] = "Err")
                    => WasDispatched(s, k))

\* C28: a stream gave Err, then an Apply, and call_reconcile was invoked
\* for the Apply.
C28_Witness ==
    \E s \in Supervisors :
        /\ taken[s] = <<"Err", "Apply">>
        /\ delivered[s] = <<[event_type |-> "Added", name |-> 2]>>

(***************************************************************************)
(* C29.  Exactly one watch supervisor is spawned per WatchRequest an       *)
(* operator returns at cold start, and it dispatches only to that          *)
(* operator: no supervisor of an operator is spawned before its            *)
(* get_watch_requests has returned, afterwards the supervisors spawned for *)
(* it are one per request returned, none is spawned a second time, and a   *)
(* supervisor calls with_operator with no other id than its operator's.    *)
(* An operator that returned no request has no supervisor, is never handed *)
(* a reconcile, and its slot stays Loaded until the reaper takes it in a   *)
(* sweep, having found it idle.                                            *)
(***************************************************************************)
SpawnedFor(id) == {s \in Supervisors : s.id = id /\ pc[s] # "unspawned"}

ZeroRequests(id) == requested[id] = {{}}

ReaperTook(id) ==
    \/ unload_result[id] # "none"
    \/ target[REAPER] = id /\ pc[REAPER] \in {"un_ser", "un_mkdir", "un_write"}

OnePerRequest ==
    \A id \in OperatorIds :
        /\ requested[id] = {} => SpawnedFor(id) = {}
        /\ \A watch_requests \in requested[id] :
               SpawnedFor(id) = {s \in Supervisors : s.id = id /\ s.kind \in watch_requests}
        /\ \A s \in Supervisors : s.id = id => target[s] \in {"-", id}
        /\ ZeroRequests(id) =>
               /\ \A s \in Supervisors : s.id = id => delivered[s] = <<>>
               /\ operators[id].kind = "Loaded" \/ ReaperTook(id)

C29_OneSupervisorPerWatchRequest ==
    /\ []OnePerRequest
    /\ [][/\ \A s \in Supervisors :
                pc'[s] = "spawned" /\ pc[s] # "spawned" => pc[s] = "unspawned"
          /\ \A id \in OperatorIds :
                (ZeroRequests(id) /\ operators[id].kind = "Loaded"
                                  /\ operators'[id].kind # "Loaded")
                    => /\ pc[REAPER] = "sweep"
                       /\ IsIdle(operators[id].last_active)]_vars

\* An operator returned two requests, and each of its two supervisors has
\* handed it a reconcile.
C29_Witness ==
    \E id \in OperatorIds :
        /\ requested[id] = {WatchKinds}
        /\ \A s \in SpawnedFor(id) : delivered[s] # <<>>

(***************************************************************************)
(* C30.  Callers of one operator are served first come, first served: when *)
(* the f of a with_operator call starts to run, no call for the same       *)
(* operator that arrived before it is still without its f having run.      *)
(***************************************************************************)
\* with_operator calls of supervisor s that have arrived / whose f has run.
Arrived(s) == Len(yielded[s])
Served(s) == Len(delivered[s])

\* The call of b whose f starts in this step arrived after the unserved
\* call of a: it arrives in this very step, or a found the slot held by a
\* task other than b, so that b's call was not yet under way.
ArrivedAfter(b, a) == Arrived(b)' > Arrived(b) \/ blocker[a] # b

C30_FifoAmongCallers ==
    [][\A b \in Supervisors :
          Served(b)' > Served(b)
              => \A a \in Supervisors \ {b} :
                     (a.id = b.id /\ ArrivedAfter(b, a)) => Served(a) = Arrived(a)]_vars

(***************************************************************************)
(* C32.  with_operator stamps the activity when it completes: when a call  *)
(* returns and leaves the operator Loaded, the last_active of the slot it  *)
(* inserted is not earlier than the instant its f returned.                *)
(***************************************************************************)
\* with_operator of task t returns in this step, f having returned.
FReturns(t) == pc[t] = "wo_f" /\ pc'[t] # "wo_f"

C32_ActivityStampedAtCompletion ==
    [][\A t \in Callers :
          (FReturns(t) /\ operators'[target[t]].kind = "Loaded")
              => operators'[target[t]].last_active >= now]_vars

(***************************************************************************)
(* C33.  Atomic snapshot write: at every instant, also when a write has    *)
(* failed part-way, the state file of an operator is absent or holds the   *)
(* complete bytes a call_serialize returned, never a part of them.         *)
(***************************************************************************)
C33_AtomicSnapshotWrite ==
    \A path \in Paths : \A bytes \in files[path] : bytes \in Blobs

(***************************************************************************)
(* C34.  The reaper swaps out only operators that are idle at the moment   *)
(* of the swap-out: when unload_component takes a Loaded slot out of the   *)
(* map to serialize it, the slot's last_active is more than IDLE_THRESHOLD *)
(* old at that moment, whatever it was when idle_ids was collected.        *)
(***************************************************************************)
\* unload_component(id) takes the Loaded slot of id in this step.
TakesToUnload(id) ==
    /\ pc[REAPER] = "sweep"
    /\ pc'[REAPER] = "un_ser"
    /\ target'[REAPER] = id

C34_IdleAtSwapOut ==
    [][\A id \in OperatorIds :
          TakesToUnload(id) => IsIdle(operators[id].last_active)]_vars

(***************************************************************************)
(* C36.  Dropping a handle does not cancel its request: when the guest has *)
(* dropped a FutureResponse before the response arrived, the task          *)
(* send_request spawned can still run, it runs its call to the cluster to  *)
(* completion, the result is discarded with the failed send, and no get of *)
(* any instance receives it.                                               *)
(***************************************************************************)
\* The receiver of channel c was dropped while its task was running.
DroppedEarly(c) == channels[c].state = "running" /\ ~ReceiverAlive(c)

\* The task of channel c found the receiver dropped when it sent.
Discarded(c) == channels[c].state = "receiver dropped"

C36_DropDoesNotCancel ==
    /\ [](\A c \in 1..Len(channels) :
            /\ DroppedEarly(c) => ENABLED send_request_task(c)
            /\ Discarded(c) =>
                  /\ channels[c].reply \in Reached(channels[c].request)
                  /\ channels[c].value = {}
                  /\ ~ReceiverAlive(c)
                  /\ ~(ret.fn = "get" /\ ret.req = c))
    /\ [][\A c \in 1..Len(channels) :
              (DroppedEarly(c) /\ channels'[c] # channels[c]) => Discarded(c)']_vars

\* The guest of one operator dropped a handle before the answer came, and
\* the task went on to get an object from the cluster.
C36_Witness ==
    \E c \in 1..Len(channels) : Discarded(c) /\ channels[c].reply = "Object"

(***************************************************************************)
(* C35.  Handles do not survive a swap cycle.  As claimed: in an instance  *)
(* reloaded after a swap-out, a get on a handle that was created before    *)
(* the swap-out yields the unknown-handle error.  As the code has it: the  *)
(* table of the reloaded instance starts empty and no get in it ever       *)
(* returns for a request sent before the swap-out, be it with a response   *)
(* or with the channel-closed error; a get on a handle created before the  *)
(* swap-out yields the unknown-handle error unless push has given the same *)
(* handle to the reloaded instance for a request of its own.               *)
(***************************************************************************)
\* The handles push returned to instances other than inst: with one
\* operator in the host, the earlier incarnations of inst's operator.
HandlesBefore(inst) ==
    {channels[c].handle : c \in {x \in 1..Len(channels) : channels[x].by # inst}}

\* The handles push returned to inst.
HandlesOf(inst) ==
    {channels[c].handle : c \in {x \in 1..Len(channels) : channels[x].by = inst}}

\* The last get was one of a reloaded instance on a handle made before.
GetOnOldHandle == ret.fn = "get" /\ ret.handle \in HandlesBefore(ret.inst)

C35_OldHandleIsUnknown == GetOnOldHandle => ret.result = Err("unknown handle")

C35_NoResponseAcrossSwap ==
    /\ \A t \in Callers :
          pc[t] = "wo_read" => \A h \in Handles : InstanceOf(t).resources[h] = NoEntry
    /\ (ret.fn = "get" /\ ret.req # 0) => channels[ret.req].by = ret.inst
    /\ (GetOnOldHandle /\ ret.handle \notin HandlesOf(ret.inst))
          => ret.result = Err("unknown handle")

\* A reloaded instance that has made no request under that handle has called
\* get on a handle of the swapped-out instance whose result had been sent.
C35_Witness ==
    /\ GetOnOldHandle
    /\ ret.handle \notin HandlesOf(ret.inst)
    /\ \E c \in 1..Len(channels) :
          /\ channels[c].by # ret.inst
          /\ channels[c].handle = ret.handle
          /\ channels[c].state = "sent"

(***************************************************************************)
(* C31.  Staggered cold start: the operators are cold-started one at a     *)
(* time in the order of the configuration, each load after one stagger     *)
(* sleep: the cold start of an operator begins at least stagger_delay      *)
(* after run_components was called and, for any but the first, at least    *)
(* stagger_delay after the cold start of the one before it began, which is *)
(* over by then; two operators are never in their cold start at once.      *)
(***************************************************************************)
\* The cold start of id (load, insert, get_watch_requests) is in progress.
ColdStarting(id) == began[id] # {} /\ requested[id] = {} /\ pc[SCHED] # "failed"

C31_StaggeredColdStart ==
    /\ \A k \in 1..Len(components) : \A b \in began[components[k]] :
          /\ b >= stagger_delay
          /\ k > 1 =>
                /\ began[components[k - 1]] # {}
                /\ \A a \in began[components[k - 1]] : b - a >= stagger_delay
                /\ ~ColdStarting(components[k - 1])
    /\ Cardinality({id \in OperatorIds : ColdStarting(id)}) <= 1

\* The second operator of the configuration has been cold-started.
C31_Witness ==
    /\ Len(components) > 1
    /\ began[components[2]] # {}
    /\ requested[components[2]] # {}

====
